---- MODULE Spec2Model ----
(***************************************************************************)
(* Model of the resumable harvesting engine of fetch_garmin_data.py:       *)
(* collect_year_data, its per-method unit of work run_method, the          *)
(* orchestrator execute_method_for_year with its sequential and paged call *)
(* loops, the retry wrapper safe_call, the call planner                    *)
(* build_calls_for_method and the envelope files kept on durable storage.  *)
(*                                                                         *)
(* A behaviour is a sequence of collect_year_data runs over one output     *)
(* directory.  The remote service, the disk (a write may raise) and the    *)
(* session factory are the nondeterministic environment; a run may also be *)
(* interrupted (the process is killed) between any two steps.              *)
(***************************************************************************)
EXTENDS Integers, Sequences, FiniteSets, TLC

(***************************************************************************)
(* Bounds of the model                                                     *)
(***************************************************************************)
\* number of collect_year_data runs of one behaviour: one worker, one method
MaxRuns == 2
\* number of collect_year_data runs of one behaviour over a longer feed or with
\* more workers
MaxFeedRuns == 1
\* number of faults (a write_json that raises, a session factory that raises)
\* the environment injects in one run
MaxFaults == 2
\* the remote service holds fewer than MaxFullPages + 1 full pages of a paged feed
MaxFullPages == 1
\* the activity ids the bootstrap can report are 1..MaxSeedId
MaxSeedId == 2
\* safe_call applied on its own is given retries in 0..MaxRetries
MaxRetries == 3
\* classify_call_type applied on its own is given up to MaxParams parameters
MaxParams == 3
\* build_seed_context applied on its own: the service scripts the answers to the
\* first MaxSeedPages pages of get_activities and of get_workouts
MaxSeedPages == 2

(***************************************************************************)
(* Program constants                                                       *)
(***************************************************************************)
\* execute_paged_method: limit = int(base_kwargs.get("limit", 100))
PageLimit == 100
\* execute_paged_method: while page_start < 20000
PageCeiling == 20000
\* execute_method_for_year calls safe_call(..., retries=1)
CallRetries == 1
\* build_calls_for_method: chunk_date_range(..., max_days=31)
BodyBatteryMaxDays == 31
\* build_calls_for_method: kwargs["weeks"] = 52
WeeklyWeeks == 52
\* fetch_activities_for_year: while page < 500
ActivityPageCeiling == 500
\* fetch_all_workouts: limit = 100
WorkoutLimit == 100
\* fetch_all_workouts: while start < 20000
WorkoutCeiling == 20000

ID_PARAM_TO_SEED_KEY ==
    << <<"activity_id", "activity_ids">>,
       <<"workout_id", "workout_ids">>,
       <<"scheduled_workout_id", "scheduled_workout_ids">>,
       <<"device_id", "device_ids">>,
       <<"userProfileNumber", "user_profile_numbers">>,
       <<"gearUUID", "gear_uuids">>,
       <<"plan_id", "plan_ids">> >>

SPECIAL_METHODS ==
    {"get_lactate_threshold", "get_goals", "get_race_predictions",
     "get_progress_summary_between_dates"}

EXCLUDED_METHODS == {"get_stats", "get_stress_data", "get_activities_by_date"}

\* method names of the catalog that start with "download_" / "get_weekly_"
\* (str.startswith over the finite universe of names of the model)
DownloadPrefixed == {"download_activity", "download_archive"}
WeeklyPrefixed == {"get_weekly_steps", "get_weekly_stress", "get_weekly_intensity_minutes"}

(***************************************************************************)
(* MethodSpec feed.  A spec carries its parsed parameter names (the result *)
(* of parse_signature_params on its signature) in declaration order.       *)
(***************************************************************************)
SpecFullName ==
    [section_slug |-> "user_profile", method |-> "get_full_name", params |-> <<>>]
SpecUnitSystem ==
    [section_slug |-> "user_profile", method |-> "get_unit_system", params |-> <<>>]
SpecDevices ==
    [section_slug |-> "device_technical", method |-> "get_devices", params |-> <<>>]
SpecActivity ==
    [section_slug |-> "activities_workouts", method |-> "get_activity",
     params |-> <<"activity_id">>]
SpecWorkouts ==
    [section_slug |-> "activities_workouts", method |-> "get_workouts",
     params |-> <<"start", "limit">>]
SpecDownload ==
    [section_slug |-> "activities_workouts", method |-> "download_activity",
     params |-> <<"activity_id", "dl_fmt">>]

\* an excluded method
SpecStats ==
    [section_slug |-> "daily_health", method |-> "get_stats", params |-> <<"cdate">>]
\* a download method whose signature declares no id parameter
SpecDownloadArchive ==
    [section_slug |-> "activities_workouts", method |-> "download_archive",
     params |-> <<"fmt">>]
\* a method no classification rule matches: call type special by default
SpecGraphql ==
    [section_slug |-> "advanced", method |-> "query_garmin_graphql",
     params |-> <<"query">>]

\* the feeds collect_year_data is run on: single methods, run again and again
\* over the same output directory (Catalogs), a feed of two methods
\* (FeedCatalogs), and feeds with excluded, download and unplannable methods
\* over several sections (PlanCatalogs)
Catalogs == { <<SpecDevices>>, <<SpecActivity>>, <<SpecWorkouts>> }
FeedCatalogs == { <<SpecFullName, SpecDevices>> }
PlanCatalogs ==
    { <<SpecFullName, SpecActivity>>,
      <<SpecStats, SpecDownload, SpecDownloadArchive, SpecGraphql>> }
\* a feed of two unpaged methods of two sections, run again and again over the
\* same output directory, with and without a section filter
FilterCatalogs == { <<SpecUnitSystem, SpecDevices>> }

AllSpecs ==
    {SpecFullName, SpecUnitSystem, SpecDevices, SpecActivity, SpecWorkouts, SpecDownload,
     SpecStats, SpecDownloadArchive, SpecGraphql}

Range(s) == { s[i] : i \in 1..Len(s) }

(***************************************************************************)
(* classify_call_type                                                      *)
(***************************************************************************)
IdParams == { ID_PARAM_TO_SEED_KEY[i][1] : i \in 1..Len(ID_PARAM_TO_SEED_KEY) }

\* the rules with the paged test moved before the weekly and daily tests
ClassifyPagedFirst(method_name, params) ==
    LET params_set == Range(params) IN
    IF method_name \in DownloadPrefixed THEN "download"
    ELSE IF method_name \in SPECIAL_METHODS THEN "special"
    ELSE IF params = <<>> THEN "noarg"
    ELSE IF "start" \in params_set /\ "limit" \in params_set THEN "paged"
    ELSE IF method_name \in WeeklyPrefixed \/ "weeks" \in params_set THEN "weekly"
    ELSE IF "cdate" \in params_set \/ "fordate" \in params_set THEN "daily"
    ELSE IF {"startdate", "enddate", "start_date", "end_date"} \cap params_set # {}
         THEN "date_range"
    ELSE IF params_set \cap IdParams # {} THEN "id_based"
    ELSE "special"

classify_call_type(method_name, params) ==
    LET params_set == Range(params) IN
    IF method_name \in DownloadPrefixed THEN "download"
    ELSE IF method_name \in SPECIAL_METHODS THEN "special"
    ELSE IF params = <<>> THEN "noarg"
    ELSE IF method_name \in WeeklyPrefixed \/ "weeks" \in params_set THEN "weekly"
    ELSE IF "cdate" \in params_set \/ "fordate" \in params_set THEN "daily"
    ELSE IF "start" \in params_set /\ "limit" \in params_set THEN "paged"
    ELSE IF {"startdate", "enddate", "start_date", "end_date"} \cap params_set # {}
         THEN "date_range"
    ELSE IF params_set \cap IdParams # {} THEN "id_based"
    ELSE "special"

(***************************************************************************)
(* request_key: json.dumps(kwargs, sort_keys=True).  A kwargs dict is the  *)
(* sequence of its <<name, value>> items in insertion order; its key is    *)
(* the same items sorted by name.                                          *)
(***************************************************************************)
\* the parameter names of the model in the order sort_keys puts them
KeyOrder ==
    <<"_type", "activity_id", "aggregation", "end_date", "enddate",
      "groupbyactivities", "latest", "limit", "metric", "source", "start",
      "start_date", "startdate", "status">>

KeyRank(name) == CHOOSE i \in 1..Len(KeyOrder) : KeyOrder[i] = name

RECURSIVE InsertByKey(_, _)
InsertByKey(item, sorted) ==
    IF sorted = <<>> THEN <<item>>
    ELSE IF KeyRank(item[1]) <= KeyRank(Head(sorted)[1]) THEN <<item>> \o sorted
    ELSE <<Head(sorted)>> \o InsertByKey(item, Tail(sorted))

RECURSIVE SortByKey(_)
SortByKey(kwargs) ==
    IF kwargs = <<>> THEN <<>>
    ELSE InsertByKey(Head(kwargs), SortByKey(Tail(kwargs)))

request_key(kwargs) == SortByKey(kwargs)

get_completed_request_keys(envelope) ==
    { request_key(envelope.data[i].request) : i \in 1..Len(envelope.data) }

\* kwargs.get(name): the value of an item, -1 standing for a missing one
KwGet(kwargs, name) ==
    IF \E i \in 1..Len(kwargs) : kwargs[i][1] = name
    THEN kwargs[CHOOSE i \in 1..Len(kwargs) : kwargs[i][1] = name][2]
    ELSE -1

\* dict item assignment kwargs[name] = value: an existing item keeps its place
KwSet(kwargs, name, value) ==
    IF \E i \in 1..Len(kwargs) : kwargs[i][1] = name
    THEN [i \in 1..Len(kwargs) |->
             IF kwargs[i][1] = name THEN <<name, value>> ELSE kwargs[i]]
    ELSE Append(kwargs, <<name, value>>)

(***************************************************************************)
(* safe_call: the remote operation is invoked up to retries + 1 times.     *)
(* answers[k] is what the remote service does on the k-th invocation:      *)
(* "ok", "transient" or "timeout" (two retryable errors) or "client400"    *)
(* (an error whose text carries '400 Client Error' or '(400)').  has_fn    *)
(* tells whether getattr(client, method, None) found the operation.        *)
(***************************************************************************)
RemoteAnswers == {"ok", "transient", "timeout", "client400"}

AnswerSeqs(retries) == [1..(retries + 1) -> RemoteAnswers]

\* the loop written as range(retries): one attempt too few
RECURSIVE SafeCallFromRangeRetries(_, _, _)
SafeCallFromRangeRetries(answers, k, retries) ==
    IF answers[k] = "ok" THEN [ok |-> TRUE, attempts |-> k, error |-> "none"]
    ELSE IF answers[k] = "client400"
         THEN [ok |-> FALSE, attempts |-> k, error |-> "client400"]
    ELSE IF k >= retries
         THEN [ok |-> FALSE, attempts |-> k, error |-> answers[k]]
    ELSE SafeCallFromRangeRetries(answers, k + 1, retries)

\* the loop without the test of line 254: every error is retried
RECURSIVE SafeCallFromRetryAll(_, _, _)
SafeCallFromRetryAll(answers, k, retries) ==
    IF answers[k] = "ok" THEN [ok |-> TRUE, attempts |-> k, error |-> "none"]
    ELSE IF k = retries + 1
         THEN [ok |-> FALSE, attempts |-> k, error |-> answers[k]]
    ELSE SafeCallFromRetryAll(answers, k + 1, retries)

RECURSIVE SafeCallFrom(_, _, _)
SafeCallFrom(answers, k, retries) ==
    IF answers[k] = "ok" THEN [ok |-> TRUE, attempts |-> k, error |-> "none"]
    ELSE IF answers[k] = "client400"
         THEN [ok |-> FALSE, attempts |-> k, error |-> "client400"]
    ELSE IF k = retries + 1
         THEN [ok |-> FALSE, attempts |-> k, error |-> answers[k]]
    ELSE SafeCallFrom(answers, k + 1, retries)

safe_call(has_fn, answers, retries) ==
    IF ~has_fn THEN [ok |-> FALSE, attempts |-> 0, error |-> "AttributeError"]
    ELSE SafeCallFrom(answers, 1, retries)

(***************************************************************************)
(* Envelopes.  stats.duration_seconds, section and year are not modelled.  *)
(* A response is the number of items of a page, or 1 for any other payload.*)
(***************************************************************************)
\* read_json_if_exists returning None: the file does not exist
NoEnvelope ==
    [method |-> "", call_type |-> "", status |-> "absent",
     request_args |-> <<>>, data |-> <<>>, errors |-> <<>>,
     attempted_calls |-> 0, success_calls |-> 0, failed_calls |-> 0]

FreshEnvelope(method, call_type) ==
    [method |-> method, call_type |-> call_type, status |-> "pending",
     request_args |-> <<>>, data |-> <<>>, errors |-> <<>>,
     attempted_calls |-> 0, success_calls |-> 0, failed_calls |-> 0]

DataRecord(req, response) == [request |-> req, response |-> response]
\* an errors entry {"request": req, "error": text}
ErrorRecord(req, error) == [has_request |-> TRUE, request |-> req, error |-> error]
\* an errors entry {"error": text}: a skip reason or the text of an exception
BareError(error) == [has_request |-> FALSE, request |-> <<>>, error |-> error]

\* str(exc) of a failed remote call: the text is not modelled
ErrorText(kind) == "remote_error"

\* the three stats assignments attempted/success/failed = len(...)
RefreshStats(e) ==
    [e EXCEPT !.attempted_calls = Len(e.request_args),
              !.success_calls = Len(e.data),
              !.failed_calls = Len(e.errors)]

\* execute_method_for_year, lines 608-643: reuse the loaded envelope of the
\* same method or start a fresh one, then recompute the stats from the lists
PrepareEnvelope(existing, method, call_type) ==
    RefreshStats(
        IF existing.status # "absent" /\ existing.method = method
        THEN [existing EXCEPT !.call_type = call_type]
        ELSE FreshEnvelope(method, call_type))

SeedCacheRequest == << <<"source", "seed_cache">> >>

\* the adoption with the status assignment of line 654 forgotten
AdoptSeedCacheKeepStatus(e) ==
    LET a == [e EXCEPT !.request_args = Append(@, SeedCacheRequest),
                       !.data = Append(@, DataRecord(SeedCacheRequest, 1))]
    IN [a EXCEPT !.attempted_calls = Len(a.request_args),
                 !.success_calls = Len(a.data)]

\* lines 650-654: failed_calls is not reassigned here
AdoptSeedCache(e) ==
    LET a == [e EXCEPT !.request_args = Append(@, SeedCacheRequest),
                       !.data = Append(@, DataRecord(SeedCacheRequest, 1))]
    IN [a EXCEPT !.attempted_calls = Len(a.request_args),
                 !.success_calls = Len(a.data),
                 !.status = "success"]

\* the skip path with the reason left out of the envelope
SkipEnvelopeNoReason(e, skip_reason) ==
    RefreshStats([e EXCEPT !.status = "skipped"])

\* lines 716-720
SkipEnvelope(e, skip_reason) ==
    RefreshStats([e EXCEPT !.status = "skipped",
                           !.errors = Append(@, BareError(skip_reason))])

\* the bookkeeping of one outcome with the failed_calls assignment forgotten
RecordOutcomeStaleFailed(e, req, ok, response, error) ==
    LET r == IF ok
             THEN [e EXCEPT !.request_args = Append(@, req),
                            !.data = Append(@, DataRecord(req, response))]
             ELSE [e EXCEPT !.request_args = Append(@, req),
                            !.errors = Append(@, ErrorRecord(req, error))]
    IN [r EXCEPT !.attempted_calls = Len(r.request_args),
                 !.success_calls = Len(r.data)]

\* the bookkeeping of one outcome with the status derived at once, as after
\* the last call
RecordOutcomeWithStatus(e, req, ok, response, error) ==
    LET r == IF ok
             THEN [e EXCEPT !.request_args = Append(@, req),
                            !.data = Append(@, DataRecord(req, response))]
             ELSE [e EXCEPT !.request_args = Append(@, req),
                            !.errors = Append(@, ErrorRecord(req, error))]
    IN [r EXCEPT !.attempted_calls = Len(r.request_args),
                 !.success_calls = Len(r.data),
                 !.failed_calls = Len(r.errors),
                 !.status = IF Len(r.data) > 0 /\ Len(r.errors) = 0 THEN "success"
                            ELSE IF Len(r.data) > 0 THEN "partial" ELSE "failed"]

\* on_paged_chunk_done (lines 685-692) and the loop body (lines 734-746)
RecordOutcome(e, req, ok, response, error) ==
    RefreshStats(
        IF ok
        THEN [e EXCEPT !.request_args = Append(@, req),
                       !.data = Append(@, DataRecord(req, response))]
        ELSE [e EXCEPT !.request_args = Append(@, req),
                       !.errors = Append(@, ErrorRecord(req, error))])

\* lines 706-711
PagedFinalStatus(e) ==
    IF e.success_calls > 0 /\ e.failed_calls = 0 THEN "success"
    ELSE IF e.success_calls > 0 THEN "partial"
    ELSE "failed"

\* the status derivation of lines 750-757 left out: the status stays as it is
FinalStatusKept(e) == e.status

\* lines 750-757
FinalStatus(e) ==
    IF e.success_calls > 0 /\ e.failed_calls = 0 THEN "success"
    ELSE IF e.success_calls > 0 THEN "partial"
    ELSE IF e.attempted_calls = 0 THEN "skipped"
    ELSE "failed"

\* run_method, lines 852-867
SyntheticFailed(method, call_type, error) ==
    [method |-> method, call_type |-> call_type, status |-> "failed",
     request_args |-> <<>>, data |-> <<>>, errors |-> <<BareError(error)>>,
     attempted_calls |-> 0, success_calls |-> 0, failed_calls |-> 1]

\* run_method, lines 871-880 (output_file is OutputFile of the spec)
ManifestItem(spec, call_type, e) ==
    [method |-> spec.method, section_slug |-> spec.section_slug,
     call_type |-> e.call_type, status |-> e.status,
     attempted_calls |-> e.attempted_calls, success_calls |-> e.success_calls,
     failed_calls |-> e.failed_calls, error_count |-> Len(e.errors)]

\* the completion test with "skipped" forgotten
AlreadyCompleteSuccessOnly(existing) == existing.status \in {"success"}

\* run_method, line 819
AlreadyComplete(existing) == existing.status \in {"success", "skipped"}

(***************************************************************************)
(* Seed context.  A bootstrap outcome is the sorted, deduplicated id list  *)
(* of the year's activities and, per cached method, whether the cached     *)
(* payload is empty ([] or {}, also the default after a failed call).      *)
(***************************************************************************)
RECURSIVE SortedSeq(_)
SortedSeq(S) ==
    IF S = {} THEN <<>>
    ELSE LET m == CHOOSE x \in S : \A y \in S : x <= y
         IN <<m>> \o SortedSeq(S \ {m})

CachedMethods == {"get_devices", "get_workouts"}

SeedContexts ==
    [activity_ids : { SortedSeq(S) : S \in SUBSET (1..MaxSeedId) },
     cached : [CachedMethods -> {"empty", "payload"}]]

\* the seed contexts that differ in a part some method of the feed reads: the
\* parts no method of the feed reads are left at their empty default
ContextsFor(feed) ==
    { c \in SeedContexts :
        /\ (\A i \in 1..Len(feed) : "activity_id" \notin Range(feed[i].params))
              => c.activity_ids = <<>>
        /\ \A m \in CachedMethods :
              (\A i \in 1..Len(feed) : feed[i].method # m) => c.cached[m] = "empty" }

\* the include_downloads values that matter to the feed (the default is True)
DownloadTogglesFor(feed) ==
    IF \E i \in 1..Len(feed) : feed[i].method \in DownloadPrefixed
    THEN BOOLEAN ELSE {TRUE}

EmptyContext ==
    [activity_ids |-> <<>>, cached |-> [m \in CachedMethods |-> "empty"]]

\* ctx.get(seed_key, []): a context of the model leaves out the id lists that
\* are empty for every feed it is used with
SeedIds(ctx, seed_key) ==
    IF seed_key \in DOMAIN ctx THEN ctx[seed_key] ELSE <<>>

\* lines 647-648: cached_data not in (None, {}, [])
HasCachedData(ctx, method) ==
    method \in CachedMethods /\ ctx.cached[method] = "payload"

(***************************************************************************)
(* Calendar dates.  A datetime.date is the record of its year, month and   *)
(* day; date + timedelta(days=k) goes through the proleptic Gregorian      *)
(* ordinal as datetime does.  The ISO text "YYYY-MM-DD" of a date is the   *)
(* number YYYYMMDD of its digits: isoformat writes it, strptime reads it.  *)
(***************************************************************************)
IsLeap(y) == (y % 4 = 0 /\ y % 100 # 0) \/ y % 400 = 0

DaysInMonth(y, m) ==
    IF m = 2 THEN (IF IsLeap(y) THEN 29 ELSE 28)
    ELSE IF m \in {4, 6, 9, 11} THEN 30 ELSE 31

RECURSIVE DaysBeforeMonth(_, _)
DaysBeforeMonth(y, m) ==
    IF m = 1 THEN 0 ELSE DaysBeforeMonth(y, m - 1) + DaysInMonth(y, m - 1)

DaysBeforeYear(y) ==
    365 * (y - 1) + ((y - 1) \div 4) - ((y - 1) \div 100) + ((y - 1) \div 400)

date(y, m, d) == [year |-> y, month |-> m, day |-> d]

toordinal(d) == DaysBeforeYear(d.year) + DaysBeforeMonth(d.year, d.month) + d.day

fromordinal(n) ==
    LET y == CHOOSE yy \in (n \div 366)..(n \div 365 + 1) :
                 DaysBeforeYear(yy) < n /\ n <= DaysBeforeYear(yy + 1)
        k == n - DaysBeforeYear(y)
        m == CHOOSE mm \in 1..12 :
                 DaysBeforeMonth(y, mm) < k
                     /\ k <= DaysBeforeMonth(y, mm) + DaysInMonth(y, mm)
    IN date(y, m, k - DaysBeforeMonth(y, m))

\* d + timedelta(days=k)
AddDays(d, k) == fromordinal(toordinal(d) + k)

isoformat(d) == d.year * 10000 + d.month * 100 + d.day

\* datetime.strptime(text, "%Y-%m-%d").date()
strptime(text) == date(text \div 10000, (text \div 100) % 100, text % 100)

\* the loop of iter_year_dates with the test current < end
IterDatesFromExclusive(current, end) ==
    LET rounds == IF toordinal(current) < toordinal(end)
                  THEN toordinal(end) - toordinal(current) ELSE 0
    IN [k \in 1..rounds |-> isoformat(AddDays(current, k - 1))]

\* iter_year_dates, lines 155-157: the loop runs once for each day from
\* current to end, and its k-th round yields current + (k - 1) days
IterDatesFrom(current, end) ==
    LET rounds == IF toordinal(current) <= toordinal(end)
                  THEN toordinal(end) - toordinal(current) + 1 ELSE 0
    IN [k \in 1..rounds |-> isoformat(AddDays(current, k - 1))]

iter_year_dates(year) == IterDatesFrom(date(year, 1, 1), date(year, 12, 31))

\* the loop of chunk_date_range with windows of max_days + 1 days
RECURSIVE ChunksFromLongWindow(_, _, _)
ChunksFromLongWindow(current, end_dt, max_days) ==
    IF ~(toordinal(current) <= toordinal(end_dt)) THEN <<>>
    ELSE LET reach == AddDays(current, max_days)
             chunk_end == IF toordinal(reach) <= toordinal(end_dt) THEN reach ELSE end_dt
         IN << <<isoformat(current), isoformat(chunk_end)>> >>
                \o ChunksFromLongWindow(AddDays(chunk_end, 1), end_dt, max_days)

\* chunk_date_range, lines 466-469
RECURSIVE ChunksFrom(_, _, _)
ChunksFrom(current, end_dt, max_days) ==
    IF ~(toordinal(current) <= toordinal(end_dt)) THEN <<>>
    ELSE LET reach == AddDays(current, max_days - 1)
             chunk_end == IF toordinal(reach) <= toordinal(end_dt) THEN reach ELSE end_dt
         IN << <<isoformat(current), isoformat(chunk_end)>> >>
                \o ChunksFrom(AddDays(chunk_end, 1), end_dt, max_days)

chunk_date_range(start_iso, end_iso, max_days) ==
    ChunksFrom(strptime(start_iso), strptime(end_iso), max_days)

\* build_seed_context, lines 320-328: start_date, end_date and dates of a context
StartDate(ctx) == isoformat(date(ctx.year, 1, 1))
EndDate(ctx) == isoformat(date(ctx.year, 12, 31))
Dates(ctx) == iter_year_dates(ctx.year)

(***************************************************************************)
(* build_calls_for_method: the plan and the skip reason ("None" for none)  *)
(***************************************************************************)
NoSkip == "None"

Plan(calls, skip_reason) == [calls |-> calls, skip_reason |-> skip_reason]

\* line 538: f"missing_seed:{seed_key}"
MissingSeed(seed_key) ==
    CASE seed_key = "activity_ids" -> "missing_seed:activity_ids"
      [] seed_key = "workout_ids" -> "missing_seed:workout_ids"
      [] seed_key = "scheduled_workout_ids" -> "missing_seed:scheduled_workout_ids"
      [] seed_key = "device_ids" -> "missing_seed:device_ids"
      [] seed_key = "user_profile_numbers" -> "missing_seed:user_profile_numbers"
      [] seed_key = "gear_uuids" -> "missing_seed:gear_uuids"
      [] seed_key = "plan_ids" -> "missing_seed:plan_ids"

\* the loop going on to the next table entry when the seed list is empty
RECURSIVE IdPlanFromSkipEmpty(_, _, _)
IdPlanFromSkipEmpty(k, params_set, ctx) ==
    IF k > Len(ID_PARAM_TO_SEED_KEY) THEN Plan(<<>>, "id_param_not_mapped")
    ELSE LET param == ID_PARAM_TO_SEED_KEY[k][1]
             seed_key == ID_PARAM_TO_SEED_KEY[k][2]
             ids == SeedIds(ctx, seed_key)
         IN IF param \notin params_set \/ ids = <<>>
            THEN IdPlanFromSkipEmpty(k + 1, params_set, ctx)
            ELSE Plan([i \in 1..Len(ids) |-> << <<param, ids[i]>> >>], NoSkip)

\* lines 533-541: the first entry of ID_PARAM_TO_SEED_KEY the signature declares
RECURSIVE IdPlanFrom(_, _, _)
IdPlanFrom(k, params_set, ctx) ==
    IF k > Len(ID_PARAM_TO_SEED_KEY) THEN Plan(<<>>, "id_param_not_mapped")
    ELSE LET param == ID_PARAM_TO_SEED_KEY[k][1]
             seed_key == ID_PARAM_TO_SEED_KEY[k][2]
             ids == SeedIds(ctx, seed_key)
         IN IF param \notin params_set THEN IdPlanFrom(k + 1, params_set, ctx)
            ELSE IF ids = <<>> THEN Plan(<<>>, MissingSeed(seed_key))
            ELSE Plan([i \in 1..Len(ids) |-> << <<param, ids[i]>> >>], NoSkip)

\* run_special_method_calls: ctx["start_date"] and ctx["end_date"] are the
\* strings "start_date" and "end_date"
run_special_method_calls(method) ==
    IF method = "get_lactate_threshold"
    THEN << << <<"latest", FALSE>>, <<"start_date", "start_date">>,
               <<"end_date", "end_date">>, <<"aggregation", "daily">> >> >>
    ELSE IF method = "get_goals"
    THEN << << <<"status", "active">>, <<"start", 0>>, <<"limit", 100>> >>,
            << <<"status", "completed">>, <<"start", 0>>, <<"limit", 100>> >> >>
    ELSE IF method = "get_race_predictions"
    THEN << << <<"startdate", "start_date">>, <<"enddate", "end_date">>,
               <<"_type", "running">> >> >>
    ELSE IF method = "get_progress_summary_between_dates"
    THEN << << <<"startdate", "start_date">>, <<"enddate", "end_date">>,
               <<"metric", "distance">>, <<"groupbyactivities", TRUE>> >> >>
    ELSE <<>>

\* the planner with the download toggle consulted after id resolution
BuildCallsToggleLast(spec, call_type, ctx, include_downloads) ==
    IF call_type = "noarg" THEN Plan(<< <<>> >>, NoSkip)
    ELSE IF call_type = "paged" THEN Plan(<<>>, NoSkip)
    ELSE IF call_type \in {"id_based", "download"}
         THEN LET plan == IdPlanFrom(1, Range(spec.params), ctx)
              IN IF call_type = "download" /\ ~include_downloads /\ plan.calls # <<>>
                 THEN Plan(<<>>, "download_disabled")
                 ELSE plan
    ELSE IF call_type = "special"
         THEN IF run_special_method_calls(spec.method) # <<>>
              THEN Plan(run_special_method_calls(spec.method), NoSkip)
              ELSE IF spec.params = <<>> THEN Plan(<< <<>> >>, NoSkip)
              ELSE Plan(<<>>, "special_unresolved")
    ELSE Plan(<<>>, "unsupported_call_type")

\* lines 489-491
DailyPlan(params, ctx) ==
    LET params_set == Range(params)
        date_param == IF "cdate" \in params_set THEN "cdate"
                      ELSE IF "fordate" \in params_set THEN "fordate"
                      ELSE params[1]
        dates == Dates(ctx)
    IN Plan([k \in 1..Len(dates) |-> << <<date_param, dates[k]>> >>], NoSkip)

\* lines 494-505: the kwargs of the date_range call, in insertion order
DateRangeKwargs(params_set, ctx) ==
    (IF "startdate" \in params_set THEN << <<"startdate", StartDate(ctx)>> >> ELSE <<>>)
    \o (IF "enddate" \in params_set THEN << <<"enddate", EndDate(ctx)>> >> ELSE <<>>)
    \o (IF "start_date" \in params_set THEN << <<"start_date", StartDate(ctx)>> >> ELSE <<>>)
    \o (IF "end_date" \in params_set THEN << <<"end_date", EndDate(ctx)>> >> ELSE <<>>)
    \o (IF "start" \in params_set /\ "end" \in params_set
        THEN << <<"start", StartDate(ctx)>>, <<"end", EndDate(ctx)>> >> ELSE <<>>)

\* lines 493-516
DateRangePlan(spec, ctx) ==
    LET kwargs == DateRangeKwargs(Range(spec.params), ctx)
    IN IF kwargs = <<>> THEN Plan(<<>>, "date_range_unresolved")
       ELSE IF spec.method = "get_body_battery" /\ KwGet(kwargs, "startdate") # -1
                   /\ KwGet(kwargs, "enddate") # -1
       THEN LET chunks == chunk_date_range(KwGet(kwargs, "startdate"),
                                           KwGet(kwargs, "enddate"), BodyBatteryMaxDays)
            IN Plan([k \in 1..Len(chunks) |->
                        << <<"startdate", chunks[k][1]>>, <<"enddate", chunks[k][2]>> >>],
                    NoSkip)
       ELSE Plan(<<kwargs>>, NoSkip)

\* the weekly kwargs with weeks passed whether declared or not
WeeklyKwargsAlwaysWeeks(params_set, ctx) ==
    (IF "start" \in params_set THEN << <<"start", StartDate(ctx)>> >> ELSE <<>>)
    \o (IF "end" \in params_set THEN << <<"end", EndDate(ctx)>> >> ELSE <<>>)
    \o << <<"weeks", WeeklyWeeks>> >>

\* lines 519-525
WeeklyKwargs(params_set, ctx) ==
    (IF "start" \in params_set THEN << <<"start", StartDate(ctx)>> >> ELSE <<>>)
    \o (IF "end" \in params_set THEN << <<"end", EndDate(ctx)>> >> ELSE <<>>)
    \o (IF "weeks" \in params_set THEN << <<"weeks", WeeklyWeeks>> >> ELSE <<>>)

build_calls_for_method(spec, call_type, ctx, include_downloads) ==
    IF call_type = "download" /\ ~include_downloads THEN Plan(<<>>, "download_disabled")
    ELSE IF call_type = "noarg" THEN Plan(<< <<>> >>, NoSkip)
    ELSE IF call_type = "daily" THEN DailyPlan(spec.params, ctx)
    ELSE IF call_type = "date_range" THEN DateRangePlan(spec, ctx)
    ELSE IF call_type = "weekly"
         THEN Plan(<< WeeklyKwargs(Range(spec.params), ctx) >>, NoSkip)
    ELSE IF call_type = "paged" THEN Plan(<<>>, NoSkip)
    ELSE IF call_type \in {"id_based", "download"}
         THEN IdPlanFrom(1, Range(spec.params), ctx)
    ELSE IF call_type = "special"
         THEN IF run_special_method_calls(spec.method) # <<>>
              THEN Plan(run_special_method_calls(spec.method), NoSkip)
              ELSE IF spec.params = <<>> THEN Plan(<< <<>> >>, NoSkip)
              ELSE Plan(<<>>, "special_unresolved")
    ELSE Plan(<<>>, "unsupported_call_type")

\* dedup by position: as many calls as there are completed keys are dropped
\* from the front of the plan
PendingCallsByIndex(call_kwargs_list, completed_keys) ==
    SubSeq(call_kwargs_list, Cardinality(completed_keys) + 1, Len(call_kwargs_list))

\* line 725
PendingCalls(call_kwargs_list, completed_keys) ==
    SelectSeq(call_kwargs_list, LAMBDA kwargs : request_key(kwargs) \notin completed_keys)

\* the resume cursor left on the highest completed page
ResumeStartSamePage(e, limit) ==
    LET starts == { KwGet(e.data[i].request, "start") : i \in 1..Len(e.data) } \ {-1}
    IN IF starts = {} THEN 0
       ELSE CHOOSE s \in starts : \A t \in starts : t <= s

\* lines 667-677
ResumeStart(e, limit) ==
    LET starts == { KwGet(e.data[i].request, "start") : i \in 1..Len(e.data) } \ {-1}
    IN IF starts = {} THEN 0
       ELSE (CHOOSE s \in starts : \A t \in starts : t <= s) + limit

\* lines 569-571: kwargs = dict(base_kwargs); kwargs["start"]; kwargs["limit"]
PagedKwargs(base_kwargs, page_start, limit) ==
    KwSet(KwSet(base_kwargs, "start", page_start), "limit", limit)

\* lines 661-665
PagedExtra(method) ==
    IF method \in {"get_activities", "get_workouts"} THEN << <<"limit", 100>> >> ELSE <<>>

\* one file per section: the method name left out of the path
OutputFileBySection(spec) == <<spec.section_slug, "envelope">>

\* data_root / section_slug / f"{method}.json"
OutputFile(spec) == <<spec.section_slug, spec.method>>

(***************************************************************************)
(* State                                                                   *)
(***************************************************************************)
VARIABLES
    methods,            \* the MethodSpec feed passed to collect_year_data
    max_workers,        \* its max_workers argument
    has_factory,        \* whether client_factory is not None
    endless,            \* the remote service answers every paged request with a
                        \* full page
    run,                \* number of collect_year_data runs started
    phase,              \* "idle" (no run in progress) or "running"
    outcome,            \* how the last run ended: manifest, aborted, interrupted
    overwrite,          \* arguments of the current run
    include_downloads,
    selected_sections,
    ctx,                \* the seed context build_seed_context returned
    file,               \* durable storage: the envelope file of each output path
    manifest,           \* durable storage: _manifest.json
    next,               \* position in indexed_specs of the next method to start
    done,               \* per method index: todo, running, ok, raised
    items,              \* per method index: the manifest item run_method returned
    collected,          \* pool mode: indices put into manifest_by_index, in order
    main_raised,        \* pool mode: future.result() raised in the main thread
    pc,                 \* per worker: its position in run_method
    cur,                \* per worker: index of the method it is running
    env,                \* per worker: the envelope in memory
    pending,            \* per worker: pending_calls not yet issued
    page_start,         \* per worker: cursor of the paged loop
    chunk_items,        \* per worker: items of the last page, -1 after a failed one
    wclient,            \* per worker: worker_local.client
    faults,             \* faults injected so far
    startFile,          \* history: durable storage when the current run started
    issued,             \* history: per output path, the kwargs of the remote calls
                        \* the method's unit of work issued in the current run
    used,               \* history: per session object, the threads that made a
                        \* remote call on it in the current run
    call_failed,        \* history: some safe_call of the current run raised
    exc_seen,           \* history: method indices whose run_method saw an exception
    call_in,            \* safe_call applied on its own: its arguments
    call_out,           \* ... and what it did
    fn_in,              \* classify_call_type or build_calls_for_method applied
                        \* on its own: its arguments
    fn_out              \* ... and its result

vars ==
    <<methods, max_workers, has_factory, endless, run, phase, outcome, overwrite,
      include_downloads, selected_sections, ctx, file, manifest, next, done, items,
      collected, main_raised, pc, cur, env, pending, page_start, chunk_items,
      wclient, faults, startFile, issued, used, call_failed, exc_seen,
      call_in, call_out, fn_in, fn_out>>

\* the variables no step of a run changes
configVars ==
    <<methods, max_workers, has_factory, endless, call_in, call_out, fn_in, fn_out>>
\* the history of the remote calls of the current run
callHist == <<issued, used, call_failed>>
runVars == <<overwrite, include_downloads, selected_sections, ctx>>
poolVars == <<collected, main_raised>>

PoolWorkers == {"w1", "w2"}
Workers == {"main"} \cup PoolWorkers

\* session objects: the client passed to collect_year_data and the ones
\* client_factory() returns, named after the thread that called it
Sessions == {"client"} \cup Workers

NoCall == [applied |-> FALSE, has_fn |-> TRUE, retries |-> 0, answers |-> <<>>]
\* no function has been applied on its own
NotApplied == [applied |-> FALSE]

NoResult ==
    [result |-> [ok |-> FALSE, attempts |-> 0, error |-> "none"],
     envelope |-> NoEnvelope]

Paths == { OutputFile(sp) : sp \in AllSpecs }

\* the (max_workers, client_factory is not None) pairs collect_year_data is run with
Configs == { <<1, FALSE>> }
FeedConfigs == { <<1, FALSE>>, <<1, TRUE>>, <<2, TRUE>>, <<2, FALSE>> }

\* the section filters collect_year_data is run with ({} stands for None)
SectionFilters == { {} }

\* the section filters a feed is run with: the feeds of PlanCatalogs are also
\* run with the section of their last method selected
SectionFiltersFor(feed) ==
    SectionFilters \cup
        (IF feed \in PlanCatalogs \cup FilterCatalogs
         THEN { {feed[Len(feed)].section_slug} } ELSE {})

NoItem ==
    [method |-> "", section_slug |-> "", call_type |-> "", status |-> "absent",
     attempted_calls |-> 0, success_calls |-> 0, failed_calls |-> 0, error_count |-> 0]

\* the statuses status_counts starts from (lines 902-908)
ManifestStatuses == {"success", "partial", "failed", "skipped", "pending"}

NoManifest ==
    [written |-> FALSE, total_methods |-> 0,
     status_counts |-> [st \in ManifestStatuses |-> 0], methods |-> <<>>]

(***************************************************************************)
(* collect_year_data, lines 786-794 and 883-884                            *)
(***************************************************************************)
\* the filter of lines 789-790 alone: excluded methods are scheduled
ScheduledIgnoringExcluded(i) ==
    selected_sections = {} \/ methods[i].section_slug \in selected_sections

Scheduled(i) ==
    /\ (selected_sections = {} \/ methods[i].section_slug \in selected_sections)
    /\ methods[i].method \notin EXCLUDED_METHODS

\* lines 786-794: the scheduled indexes in catalog order
RECURSIVE IndexedFrom(_)
IndexedFrom(i) ==
    IF i > Len(methods) THEN <<>>
    ELSE (IF Scheduled(i) THEN <<i>> ELSE <<>>) \o IndexedFrom(i + 1)

indexed_specs == IndexedFrom(1)

PoolActive == max_workers > 1 /\ Len(indexed_specs) > 1

Min(a, b) == IF a <= b THEN a ELSE b

worker_count == Min(max_workers, Len(indexed_specs))

\* the threads that run run_method: the pool's threads, or the calling thread
ActiveWorkers ==
    IF PoolActive
    THEN IF worker_count >= 2 THEN PoolWorkers ELSE {"w1"}
    ELSE {"main"}

\* an endless service is harvested once
RunsAllowed ==
    IF endless THEN 1
    ELSE IF methods \in FilterCatalogs THEN MaxRuns
    ELSE IF Len(methods) > 1 \/ max_workers > 1 THEN MaxFeedRuns ELSE MaxRuns

ResetWorkers ==
    /\ pc' = [w \in Workers |-> "idle"]
    /\ cur' = [w \in Workers |-> 0]
    /\ env' = [w \in Workers |-> NoEnvelope]
    /\ pending' = [w \in Workers |-> <<>>]
    /\ page_start' = [w \in Workers |-> 0]
    /\ chunk_items' = [w \in Workers |-> -1]
    /\ wclient' = [w \in Workers |-> "none"]

InitService(feeds, configs, services) ==
    /\ methods \in feeds
    /\ \E c \in configs : max_workers = c[1] /\ has_factory = c[2]
    /\ endless \in services
    /\ run = 0
    /\ phase = "idle"
    /\ outcome = "none"
    /\ overwrite = FALSE
    /\ include_downloads = TRUE
    /\ selected_sections = {}
    /\ ctx = EmptyContext
    /\ file = [p \in Paths |-> NoEnvelope]
    /\ manifest = NoManifest
    /\ next = 1
    /\ done = [i \in 1..Len(methods) |-> "todo"]
    /\ items = [i \in 1..Len(methods) |-> NoItem]
    /\ collected = <<>>
    /\ main_raised = FALSE
    /\ pc = [w \in Workers |-> "idle"]
    /\ cur = [w \in Workers |-> 0]
    /\ env = [w \in Workers |-> NoEnvelope]
    /\ pending = [w \in Workers |-> <<>>]
    /\ page_start = [w \in Workers |-> 0]
    /\ chunk_items = [w \in Workers |-> -1]
    /\ wclient = [w \in Workers |-> "none"]
    /\ faults = 0
    /\ startFile = [p \in Paths |-> NoEnvelope]
    /\ issued = [p \in Paths |-> <<>>]
    /\ used = [s \in Sessions |-> {}]
    /\ call_failed = FALSE
    /\ exc_seen = {}
    /\ call_in = NoCall
    /\ call_out = NoResult
    /\ fn_in = NotApplied
    /\ fn_out = NotApplied

\* a remote service whose paged feeds end
InitWith(feeds, configs) == InitService(feeds, configs, {FALSE})

Init == InitWith(Catalogs, Configs)
InitFeed == InitWith(FeedCatalogs, FeedConfigs)

(***************************************************************************)
(* collect_year_data, lines 778-796: the data directory is removed when    *)
(* overwrite is set, then the seed context is built                        *)
(***************************************************************************)
StartRun ==
    /\ phase = "idle"
    /\ run < RunsAllowed
    /\ \E ow \in BOOLEAN, dl \in DownloadTogglesFor(methods),
          sel \in SectionFiltersFor(methods),
          c \in ContextsFor(methods) :
        /\ overwrite' = ow
        /\ include_downloads' = dl
        /\ selected_sections' = sel
        /\ ctx' = c
        /\ file' = IF ow THEN [p \in Paths |-> NoEnvelope] ELSE file
        /\ manifest' = IF ow THEN NoManifest ELSE manifest
        /\ startFile' = IF ow THEN [p \in Paths |-> NoEnvelope] ELSE file
    /\ run' = run + 1
    /\ phase' = "running"
    /\ outcome' = "none"
    /\ next' = 1
    /\ done' = [i \in 1..Len(methods) |-> "todo"]
    /\ items' = [i \in 1..Len(methods) |-> NoItem]
    /\ collected' = <<>>
    /\ main_raised' = FALSE
    /\ issued' = [p \in Paths |-> <<>>]
    /\ used' = [s \in Sessions |-> {}]
    /\ call_failed' = FALSE
    /\ exc_seen' = {}
    /\ faults' = 0
    /\ ResetWorkers
    /\ UNCHANGED configVars

\* the process is killed while a run is in progress
Interrupt ==
    /\ phase = "running"
    /\ phase' = "idle"
    /\ outcome' = "interrupted"
    /\ ResetWorkers
    /\ UNCHANGED <<configVars, runVars, poolVars, run, file, manifest, next, done,
                   items, faults, startFile, callHist, exc_seen>>

(***************************************************************************)
(* Helpers of the per-worker steps                                         *)
(***************************************************************************)
CurSpec(w) == methods[cur[w]]
CurPath(w) == OutputFile(CurSpec(w))
CurCallType(w) == classify_call_type(CurSpec(w).method, CurSpec(w).params)

\* limit of the paged loop (lines 564 and 677)
PagedLimit(method) ==
    IF KwGet(PagedExtra(method), "limit") # -1
    THEN KwGet(PagedExtra(method), "limit") ELSE PageLimit

CurPagedKwargs(w) ==
    PagedKwargs(PagedExtra(CurSpec(w).method), page_start[w],
                PagedLimit(CurSpec(w).method))

\* the item counts a page of the remote feed can hold: empty, short or full;
\* an endless service answers every request with a full page
PageItems(start, limit) ==
    IF endless THEN {limit}
    ELSE {0, limit \div 2} \cup (IF start < MaxFullPages * limit THEN {limit} ELSE {})

Local(w, pcv, e, pend, ps, ci) ==
    /\ pc' = [pc EXCEPT ![w] = pcv]
    /\ env' = [env EXCEPT ![w] = e]
    /\ pending' = [pending EXCEPT ![w] = pend]
    /\ page_start' = [page_start EXCEPT ![w] = ps]
    /\ chunk_items' = [chunk_items EXCEPT ![w] = ci]

\* run_method returns (status "ok") or raises (status "raised"); the thread
\* keeps its worker_local.client
Finish(w, status, item) ==
    /\ done' = [done EXCEPT ![cur[w]] = status]
    /\ items' = [items EXCEPT ![cur[w]] = item]
    /\ Local(w, "idle", NoEnvelope, <<>>, 0, -1)
    /\ cur' = [cur EXCEPT ![w] = 0]

\* an exception that leaves run_method: in the pool it is kept in the future,
\* in the sequential loop (line 900) it leaves collect_year_data
RaiseOut(w) ==
    /\ Finish(w, "raised", NoItem)
    /\ phase' = IF PoolActive THEN phase ELSE "idle"
    /\ outcome' = IF PoolActive THEN outcome ELSE "aborted"

\* write_json(output_file, envelope)
WriteFile(path, e) == file' = [file EXCEPT ![path] = e]

CanFault == faults < MaxFaults

(***************************************************************************)
(* collect_year_data: executor.submit / the sequential loop hand the       *)
(* scheduled methods to the workers in MethodSpec order                    *)
(***************************************************************************)
\* every submit hands out the first scheduled method
TakeTaskFirstSpec(w) ==
    /\ phase = "running"
    /\ w \in ActiveWorkers
    /\ pc[w] = "idle"
    /\ next <= Len(indexed_specs)
    /\ next' = next + 1
    /\ cur' = [cur EXCEPT ![w] = indexed_specs[1]]
    /\ pc' = [pc EXCEPT ![w] = "start"]
    /\ done' = [done EXCEPT ![indexed_specs[1]] = "running"]
    /\ UNCHANGED <<configVars, runVars, poolVars, run, phase, outcome, file, manifest,
                   items, env, pending, page_start, chunk_items, wclient, faults,
                   startFile, callHist, exc_seen>>

TakeTask(w) ==
    /\ phase = "running"
    /\ w \in ActiveWorkers
    /\ pc[w] = "idle"
    /\ next <= Len(indexed_specs)
    /\ next' = next + 1
    /\ cur' = [cur EXCEPT ![w] = indexed_specs[next]]
    /\ pc' = [pc EXCEPT ![w] = "start"]
    /\ done' = [done EXCEPT ![indexed_specs[next]] = "running"]
    /\ UNCHANGED <<configVars, runVars, poolVars, run, phase, outcome, file, manifest,
                   items, env, pending, page_start, chunk_items, wclient, faults,
                   startFile, callHist, exc_seen>>

\* the test of line 799 with max_workers forgotten
UsesSharedClientWithoutFactory == ~has_factory

\* get_worker_client, line 799: the client passed in is handed out
UsesSharedClient == max_workers <= 1 \/ ~has_factory

\* get_worker_client, lines 798-806
NeedsSession(w) == ~UsesSharedClient /\ wclient[w] = "none"

get_worker_client(w) ==
    IF UsesSharedClient THEN wclient
    ELSE IF wclient[w] = "none" THEN [wclient EXCEPT ![w] = w]
    ELSE wclient

\* method_client of run_method (line 814): the session its remote calls go to
method_client(w) == IF UsesSharedClient THEN "client" ELSE wclient[w]

\* history of one safe_call(method_client, method, kwargs, retries=1)
LogCall(w, kwargs, r) ==
    /\ issued' = [issued EXCEPT ![CurPath(w)] = Append(@, kwargs)]
    /\ used' = [used EXCEPT ![method_client(w)] = @ \cup {w}]
    /\ call_failed' = (call_failed \/ ~r.ok)

\* line 814 with a client_factory() that raises: outside the try block
WorkerClientRaises(w) ==
    /\ phase = "running"
    /\ pc[w] = "start"
    /\ NeedsSession(w)
    /\ CanFault
    /\ faults' = faults + 1
    /\ exc_seen' = exc_seen \cup {cur[w]}
    /\ RaiseOut(w)
    /\ UNCHANGED <<configVars, runVars, poolVars, run, file, manifest, next, wclient,
                   startFile, callHist>>

\* run_method lines 809-833/839-847 and execute_method_for_year up to its first
\* remote call or write (lines 604-682, 714-727)
RunMethodStart(w) ==
    /\ phase = "running"
    /\ pc[w] = "start"
    /\ wclient' = get_worker_client(w)
    /\ LET spec == CurSpec(w)
           call_type == CurCallType(w)
           stored == file[CurPath(w)]
           existing == IF stored.status # "absent" /\ ~overwrite THEN stored
                       ELSE NoEnvelope
           e0 == PrepareEnvelope(existing, spec.method, call_type)
           completed_keys == get_completed_request_keys(e0)
           plan == build_calls_for_method(spec, call_type, ctx, include_downloads)
           todo == PendingCalls(plan.calls, completed_keys)
           resume_start == ResumeStart(e0, PagedLimit(spec.method))
       IN IF existing.status # "absent" /\ AlreadyComplete(existing)
          THEN /\ Finish(w, "ok", ManifestItem(spec, call_type, existing))
          ELSE /\ UNCHANGED <<done, items, cur>>
               /\ IF HasCachedData(ctx, spec.method) /\ e0.success_calls = 0
                  THEN Local(w, "inner_write", AdoptSeedCache(e0), <<>>, 0, -1)
                  ELSE IF call_type = "paged"
                  THEN IF resume_start < PageCeiling
                       THEN Local(w, "paged_call", e0, <<>>, resume_start, -1)
                       ELSE Local(w, "final_write",
                                  [e0 EXCEPT !.status = PagedFinalStatus(e0)],
                                  <<>>, resume_start, -1)
                  ELSE IF plan.skip_reason # NoSkip /\ plan.calls = <<>>
                  THEN Local(w, "inner_write", SkipEnvelope(e0, plan.skip_reason),
                             <<>>, 0, -1)
                  ELSE IF todo = <<>>
                  THEN Local(w, "final_write", [e0 EXCEPT !.status = FinalStatus(e0)],
                             <<>>, 0, -1)
                  ELSE Local(w, "seq_call", e0, todo, 0, -1)
    /\ UNCHANGED <<configVars, runVars, poolVars, run, phase, outcome, file, manifest,
                   next, faults, startFile, callHist, exc_seen>>

\* one iteration of the sequential loop up to its write: lines 729-746
SeqCall(w) ==
    /\ phase = "running"
    /\ pc[w] = "seq_call"
    /\ \E has_fn \in BOOLEAN, answers \in AnswerSeqs(CallRetries) :
        LET r == safe_call(has_fn, answers, CallRetries)
            kwargs == Head(pending[w])
        IN /\ Local(w, "seq_write", RecordOutcome(env[w], kwargs, r.ok, 1, ErrorText(r.error)),
                    Tail(pending[w]), 0, -1)
           /\ LogCall(w, kwargs, r)
    /\ UNCHANGED <<configVars, runVars, poolVars, run, phase, outcome, file, manifest,
                   next, done, items, cur, wclient, faults, startFile, exc_seen>>

\* the loop with its write left out: the envelope is only written at the end
SeqWriteDeferred(w) ==
    /\ phase = "running"
    /\ pc[w] = "seq_write"
    /\ IF pending[w] = <<>>
       THEN Local(w, "final_write", [env[w] EXCEPT !.status = FinalStatus(env[w])],
                  <<>>, 0, -1)
       ELSE Local(w, "seq_call", env[w], pending[w], 0, -1)
    /\ UNCHANGED <<configVars, runVars, poolVars, run, phase, outcome, file, manifest,
                   next, done, items, cur, wclient, faults, startFile, callHist, exc_seen>>

\* lines 747-757: the write that ends an iteration; after the last one the
\* final status is derived
SeqWrite(w) ==
    /\ phase = "running"
    /\ pc[w] = "seq_write"
    /\ WriteFile(CurPath(w), env[w])
    /\ IF pending[w] = <<>>
       THEN Local(w, "final_write", [env[w] EXCEPT !.status = FinalStatus(env[w])],
                  <<>>, 0, -1)
       ELSE Local(w, "seq_call", env[w], pending[w], 0, -1)
    /\ UNCHANGED <<configVars, runVars, poolVars, run, phase, outcome, manifest, next,
                   done, items, cur, wclient, faults, startFile, callHist, exc_seen>>

\* execute_paged_method, lines 568-579 and 587-589, up to the callback's write:
\* one request and the bookkeeping half of on_paged_chunk_done
PagedCall(w) ==
    /\ phase = "running"
    /\ pc[w] = "paged_call"
    /\ LET kwargs == CurPagedKwargs(w)
           limit == PagedLimit(CurSpec(w).method)
       IN \E has_fn \in BOOLEAN, answers \in AnswerSeqs(CallRetries),
             n \in PageItems(page_start[w], limit) :
               LET r == safe_call(has_fn, answers, CallRetries)
               IN /\ Local(w, "paged_write",
                           RecordOutcome(env[w], kwargs, r.ok, n, ErrorText(r.error)),
                           <<>>, page_start[w], IF r.ok THEN n ELSE -1)
                  /\ LogCall(w, kwargs, r)
    /\ UNCHANGED <<configVars, runVars, poolVars, run, phase, outcome, file, manifest,
                   next, done, items, cur, wclient, faults, startFile, exc_seen>>

\* lines 694-695, then 580-586 / 590-591 and 706-711: the callback's write,
\* the decision to go on and, when the loop ends, the final status
PagedWrite(w) ==
    /\ phase = "running"
    /\ pc[w] = "paged_write"
    /\ WriteFile(CurPath(w), env[w])
    /\ LET limit == PagedLimit(CurSpec(w).method)
           goes_on == /\ chunk_items[w] > 0
                      /\ ~(chunk_items[w] < limit)
                      /\ page_start[w] + limit < PageCeiling
       IN IF goes_on
          THEN Local(w, "paged_call", env[w], <<>>, page_start[w] + limit, -1)
          ELSE Local(w, "final_write",
                     [env[w] EXCEPT !.status = PagedFinalStatus(env[w])], <<>>, 0, -1)
    /\ UNCHANGED <<configVars, runVars, poolVars, run, phase, outcome, manifest, next,
                   done, items, cur, wclient, faults, startFile, callHist, exc_seen>>

\* the callback's write raises.  After a successful call the exception is
\* caught at line 587 and the callback runs again with the error (line 589);
\* raised by that second callback it leaves execute_paged_method
PagedWriteRaises(w) ==
    /\ phase = "running"
    /\ pc[w] = "paged_write"
    /\ CanFault
    /\ faults' = faults + 1
    /\ IF chunk_items[w] >= 0
       THEN /\ Local(w, "paged_write",
                     RecordOutcome(env[w], CurPagedKwargs(w), FALSE, 0, "write_error"),
                     <<>>, page_start[w], -1)
            /\ UNCHANGED exc_seen
       ELSE /\ Local(w, "exc", env[w], <<>>, 0, -1)
            /\ exc_seen' = exc_seen \cup {cur[w]}
    /\ UNCHANGED <<configVars, runVars, poolVars, run, phase, outcome, file, manifest,
                   next, done, items, cur, wclient, startFile, callHist>>

\* lines 655-656 and 721-722: the write of the seed-cache and skip paths
InnerWrite(w) ==
    /\ phase = "running"
    /\ pc[w] = "inner_write"
    /\ WriteFile(CurPath(w), env[w])
    /\ Local(w, "final_write", env[w], <<>>, 0, -1)
    /\ UNCHANGED <<configVars, runVars, poolVars, run, phase, outcome, manifest, next,
                   done, items, cur, wclient, faults, startFile, callHist, exc_seen>>

\* run_method, lines 834/848 and 871-880
FinalWrite(w) ==
    /\ phase = "running"
    /\ pc[w] = "final_write"
    /\ WriteFile(CurPath(w), env[w])
    /\ Finish(w, "ok", ManifestItem(CurSpec(w), CurCallType(w), env[w]))
    /\ UNCHANGED <<configVars, runVars, poolVars, run, phase, outcome, manifest, next,
                   wclient, faults, startFile, callHist, exc_seen>>

\* a write_json of the sequential loop, of the seed-cache or skip path or of
\* run_method raises: the exception reaches the handler of run_method
WriteRaises(w) ==
    /\ phase = "running"
    /\ pc[w] \in {"seq_write", "inner_write", "final_write"}
    /\ CanFault
    /\ faults' = faults + 1
    /\ exc_seen' = exc_seen \cup {cur[w]}
    /\ Local(w, "exc", env[w], <<>>, 0, -1)
    /\ UNCHANGED <<configVars, runVars, poolVars, run, phase, outcome, file, manifest,
                   next, done, items, cur, wclient, startFile, callHist>>

\* run_method, lines 851-880: the synthetic failed envelope is written
HandleException(w) ==
    /\ phase = "running"
    /\ pc[w] = "exc"
    /\ LET e == SyntheticFailed(CurSpec(w).method, CurCallType(w), "write_error")
       IN /\ WriteFile(CurPath(w), e)
          /\ Finish(w, "ok", ManifestItem(CurSpec(w), CurCallType(w), e))
    /\ UNCHANGED <<configVars, runVars, poolVars, run, phase, outcome, manifest, next,
                   wclient, faults, startFile, callHist, exc_seen>>

\* line 868 raises: the exception leaves run_method
HandlerWriteRaises(w) ==
    /\ phase = "running"
    /\ pc[w] = "exc"
    /\ CanFault
    /\ faults' = faults + 1
    /\ RaiseOut(w)
    /\ UNCHANGED <<configVars, runVars, poolVars, run, file, manifest, next, wclient,
                   startFile, callHist, exc_seen>>

(***************************************************************************)
(* collect_year_data, lines 882-925                                        *)
(***************************************************************************)
\* lines 892-894: the main thread takes the result of a completed future
Collect(i) ==
    /\ phase = "running"
    /\ PoolActive
    /\ ~main_raised
    /\ i \notin Range(collected)
    /\ done[i] \in {"ok", "raised"}
    /\ IF done[i] = "ok"
       THEN collected' = Append(collected, i) /\ UNCHANGED main_raised
       ELSE main_raised' = TRUE /\ UNCHANGED collected
    /\ UNCHANGED <<configVars, runVars, run, phase, outcome, file, manifest, next, done,
                   items, pc, cur, env, pending, page_start, chunk_items, wclient,
                   faults, startFile, callHist, exc_seen>>

\* the exception of future.result() leaves the with block once the executor
\* has shut down (shutdown(wait=True) lets every submitted method run)
PoolAbort ==
    /\ phase = "running"
    /\ PoolActive
    /\ main_raised
    /\ \A k \in 1..Len(indexed_specs) : done[indexed_specs[k]] \in {"ok", "raised"}
    /\ phase' = "idle"
    /\ outcome' = "aborted"
    /\ ResetWorkers
    /\ UNCHANGED <<configVars, runVars, poolVars, run, file, manifest, next, done,
                   items, faults, startFile, callHist, exc_seen>>

\* a count that is set to 1 where it should be incremented
StatusCountFlag(entries, status) ==
    IF \E k \in 1..Len(entries) : entries[k].status = status THEN 1 ELSE 0

StatusCount(entries, status) ==
    Cardinality({ k \in 1..Len(entries) : entries[k].status = status })

\* the pool's results taken in the order the futures completed
ManifestItemsByCompletion ==
    IF PoolActive
    THEN [k \in 1..Len(collected) |-> items[collected[k]]]
    ELSE [k \in 1..Len(indexed_specs) |-> items[indexed_specs[k]]]

\* lines 895-900: the pool's results are read from manifest_by_index in the
\* order of indexed_specs; the sequential loop appends in that order
manifest_items ==
    IF PoolActive
    THEN LET kept == SelectSeq(indexed_specs, LAMBDA i : i \in Range(collected))
         IN [k \in 1..Len(kept) |-> items[kept[k]]]
    ELSE [k \in 1..Len(indexed_specs) |-> items[indexed_specs[k]]]

\* lines 895-925
BuildManifest ==
    /\ phase = "running"
    /\ IF PoolActive
       THEN /\ ~main_raised
            /\ \A k \in 1..Len(indexed_specs) : indexed_specs[k] \in Range(collected)
       ELSE /\ next > Len(indexed_specs)
            /\ \A k \in 1..Len(indexed_specs) : done[indexed_specs[k]] = "ok"
    /\ manifest' =
            [written |-> TRUE, total_methods |-> Len(manifest_items),
             status_counts |->
                 [st \in ManifestStatuses |-> StatusCount(manifest_items, st)],
             methods |-> manifest_items]
    /\ phase' = "idle"
    /\ outcome' = "manifest"
    /\ ResetWorkers
    /\ UNCHANGED <<configVars, runVars, poolVars, run, file, next, done, items, faults,
                   startFile, callHist, exc_seen>>

\* one step of a thread inside run_method, the paged loop apart
WorkerStep(w) ==
    \/ TakeTask(w)
    \/ RunMethodStart(w)
    \/ SeqCall(w)
    \/ SeqWrite(w)
    \/ InnerWrite(w)
    \/ FinalWrite(w)
    \/ WriteRaises(w)
    \/ HandleException(w)
    \/ HandlerWriteRaises(w)

\* one step of a thread inside the paged loop
PagedStep(w) ==
    \/ PagedCall(w)
    \/ PagedWrite(w)
    \/ PagedWriteRaises(w)

\* runs with one worker over a single-method feed
Next ==
    \/ StartRun
    \/ Interrupt
    \/ BuildManifest
    \/ WorkerStep("main")
    \/ PagedStep("main")

Spec == Init /\ [][Next]_vars

\* runs over a feed of two unpaged methods, with one worker or with the pool
NextFeed ==
    \/ StartRun
    \/ Interrupt
    \/ BuildManifest
    \/ PoolAbort
    \/ \E i \in 1..Len(methods) : Collect(i)
    \/ \E w \in Workers : WorkerStep(w) \/ WorkerClientRaises(w)

SpecFeed == InitFeed /\ [][NextFeed]_vars

\* runs with one worker over the feeds of PlanCatalogs
InitPlan == InitWith(PlanCatalogs, Configs)

NextPlan ==
    \/ StartRun
    \/ Interrupt
    \/ BuildManifest
    \/ WorkerStep("main")

SpecPlan == InitPlan /\ [][NextPlan]_vars

\* runs over the feed of FilterCatalogs, with one worker or with two and a
\* session factory, with the section of the last method selected or no filter
FilterConfigs == { <<1, TRUE>>, <<2, TRUE>> }

InitFilter == InitWith(FilterCatalogs, FilterConfigs)

SpecFilter == InitFilter /\ [][NextFeed]_vars

(***************************************************************************)
(* Runs over two independent noarg methods of one section with one worker  *)
(* or a pool of two, the remote call of the sequential loop taken in two   *)
(* steps: safe_call sends the request (the call is in flight), then the    *)
(* remote service answers and the loop does its bookkeeping.               *)
(***************************************************************************)
PoolCatalogs == { <<SpecFullName, SpecUnitSystem>> }
PoolConfigs == { <<1, FALSE>>, <<2, FALSE>> }

\* line 733: safe_call is entered, the request leaves
CallBegin(w) ==
    /\ phase = "running"
    /\ pc[w] = "seq_call"
    /\ pc' = [pc EXCEPT ![w] = "in_call"]
    /\ UNCHANGED <<configVars, runVars, poolVars, run, phase, outcome, file, manifest,
                   next, done, items, cur, env, pending, page_start, chunk_items,
                   wclient, faults, startFile, callHist, exc_seen>>

\* lines 733-746: safe_call returns or raises, the outcome is recorded
CallEnd(w) ==
    /\ phase = "running"
    /\ pc[w] = "in_call"
    /\ \E has_fn \in BOOLEAN, answers \in AnswerSeqs(CallRetries) :
        LET r == safe_call(has_fn, answers, CallRetries)
            kwargs == Head(pending[w])
        IN /\ Local(w, "seq_write", RecordOutcome(env[w], kwargs, r.ok, 1, ErrorText(r.error)),
                    Tail(pending[w]), 0, -1)
           /\ LogCall(w, kwargs, r)
    /\ UNCHANGED <<configVars, runVars, poolVars, run, phase, outcome, file, manifest,
                   next, done, items, cur, wclient, faults, startFile, exc_seen>>

PoolStep(w) ==
    \/ TakeTask(w)
    \/ RunMethodStart(w)
    \/ CallBegin(w)
    \/ CallEnd(w)
    \/ SeqWrite(w)
    \/ FinalWrite(w)
    \/ WriteRaises(w)
    \/ HandleException(w)
    \/ HandlerWriteRaises(w)

InitPool == InitWith(PoolCatalogs, PoolConfigs)

NextPool ==
    \/ StartRun
    \/ Interrupt
    \/ BuildManifest
    \/ PoolAbort
    \/ \E i \in 1..Len(methods) : Collect(i)
    \/ \E w \in Workers : PoolStep(w)

SpecPool == InitPool /\ [][NextPool]_vars

(***************************************************************************)
(* Runs against a remote service that answers as it likes, the endless     *)
(* service included: every remote call returns or raises (a client_factory *)
(* whose login is refused raises), the process is not killed and the disk  *)
(* takes every write.                                                      *)
(***************************************************************************)
TermCatalogs == { <<SpecFullName, SpecWorkouts>> }
TermConfigs == { <<1, FALSE>>, <<2, TRUE>> }

TermStep(w) ==
    \/ TakeTask(w)
    \/ RunMethodStart(w)
    \/ WorkerClientRaises(w)
    \/ SeqCall(w)
    \/ SeqWrite(w)
    \/ InnerWrite(w)
    \/ FinalWrite(w)
    \/ PagedCall(w)
    \/ PagedWrite(w)

InitTerm == InitService(TermCatalogs, TermConfigs, BOOLEAN)

NextTerm ==
    \/ StartRun
    \/ BuildManifest
    \/ PoolAbort
    \/ \E i \in 1..Len(methods) : Collect(i)
    \/ \E w \in Workers : TermStep(w)

SpecTerm == InitTerm /\ [][NextTerm]_vars

(***************************************************************************)
(* safe_call on its own: any retries, any behaviour of the remote          *)
(* operation, and the bookkeeping the sequential loop does with the        *)
(* outcome (lines 732-746) on a fresh envelope                             *)
(***************************************************************************)
harvestVars ==
    <<methods, max_workers, has_factory, endless, run, phase, outcome, overwrite,
      include_downloads, selected_sections, ctx, file, manifest, next, done, items,
      collected, main_raised, pc, cur, env, pending, page_start, chunk_items,
      wclient, faults, startFile, issued, used, call_failed, exc_seen>>

CallKwargs == <<>>

ApplySafeCall ==
    /\ ~call_in.applied
    /\ \E has_fn \in BOOLEAN, retries \in 0..MaxRetries :
        \E answers \in AnswerSeqs(retries) :
            LET r == safe_call(has_fn, answers, retries)
            IN /\ call_in' = [applied |-> TRUE, has_fn |-> has_fn,
                              retries |-> retries, answers |-> answers]
               /\ call_out' =
                    [result |-> r,
                     envelope |-> RecordOutcome(FreshEnvelope("get_devices", "noarg"),
                                                CallKwargs, r.ok, 1, ErrorText(r.error))]
    /\ UNCHANGED <<harvestVars, fn_in, fn_out>>

InitCall == InitWith({ <<SpecDevices>> }, Configs)

NextCall == ApplySafeCall

SpecCall == InitCall /\ [][NextCall]_vars

(***************************************************************************)
(* classify_call_type on its own, over method names of every kind and      *)
(* signatures of up to MaxParams parameters                                *)
(***************************************************************************)
\* the parameter names signatures are made of, in declaration order
ParamOrder ==
    <<"activity_id", "gearUUID", "start", "limit", "end", "weeks", "cdate", "fordate",
      "startdate", "enddate", "start_date", "end_date", "query">>

Signatures ==
    { SelectSeq(ParamOrder, LAMBDA n : n \in S) :
        S \in { T \in SUBSET Range(ParamOrder) : Cardinality(T) <= MaxParams } }

ClassifyMethods ==
    {"download_activity", "get_lactate_threshold", "get_weekly_steps", "get_activity",
     "get_body_battery"}

ApplyClassify ==
    /\ ~fn_in.applied
    /\ \E m \in ClassifyMethods, ps \in Signatures :
        /\ fn_in' = [applied |-> TRUE, method |-> m, params |-> ps]
        /\ fn_out' = [call_type |-> classify_call_type(m, ps)]
    /\ UNCHANGED <<harvestVars, call_in, call_out>>

NextClassify == ApplyClassify

SpecClassify == InitCall /\ [][NextClassify]_vars

(***************************************************************************)
(* build_calls_for_method on its own: run_method passes it the call type   *)
(* classify_call_type gave the spec (lines 811 and 725)                    *)
(***************************************************************************)
MethodSpec(section_slug, method, params) ==
    [section_slug |-> section_slug, method |-> method, params |-> params]

BuildSpecs ==
    { SpecFullName, SpecActivity, SpecWorkouts, SpecDownload, SpecDownloadArchive,
      SpecGraphql,
      MethodSpec("daily_health", "get_sleep_data", <<"cdate">>),
      MethodSpec("activities_workouts", "get_activities_fordate", <<"fordate">>),
      MethodSpec("daily_health", "get_day_summary", <<"fordate", "cdate">>),
      MethodSpec("daily_health", "get_body_battery", <<"startdate", "enddate">>),
      MethodSpec("body_composition", "get_blood_pressure", <<"startdate", "enddate">>),
      MethodSpec("advanced", "get_hrv_range", <<"start_date", "end_date">>),
      MethodSpec("advanced", "get_range_from", <<"startdate">>),
      MethodSpec("daily_health", "get_weekly_steps", <<"end", "weeks">>),
      MethodSpec("daily_health", "get_weekly_intensity_minutes", <<"start", "end">>),
      MethodSpec("gear", "get_gear_stats", <<"gearUUID">>),
      MethodSpec("gear", "add_gear_to_activity", <<"gearUUID", "activity_id">>) }

\* the years collect_year_data is run for: a common year, leap years, a
\* century year that is not a leap year
Years == {2023, 2024, 2000, 2100}

\* the seed contexts of the planner: the year and the two id lists its specs read
BuildContexts ==
    [year : Years,
     activity_ids : { SortedSeq(S) : S \in SUBSET (1..MaxSeedId) },
     gear_uuids : { <<>>, <<1>> }]

ApplyBuild ==
    /\ ~fn_in.applied
    /\ \E sp \in BuildSpecs, c \in BuildContexts, dl \in BOOLEAN :
        LET call_type == classify_call_type(sp.method, sp.params)
        IN /\ fn_in' = [applied |-> TRUE, spec |-> sp, call_type |-> call_type,
                        ctx |-> c, include_downloads |-> dl]
           /\ fn_out' = build_calls_for_method(sp, call_type, c, dl)
    /\ UNCHANGED <<harvestVars, call_in, call_out>>

NextBuild == ApplyBuild

SpecBuild == InitCall /\ [][NextBuild]_vars

(***************************************************************************)
(* build_seed_context on its own.  The remote service is the answers it    *)
(* gives the bootstrap calls: a script of pages for get_activities and for *)
(* get_workouts (a request past the end of a script gets an empty page)    *)
(* and one answer for each of the five single calls.  An answer either     *)
(* raises, retries of safe_call included, or carries the ids of its items. *)
(* An id of 0 stands for a field that is absent (None).                    *)
(***************************************************************************)
\* a page of get_activities: the activityId of its activities dated in the
\* year (hits), whether an activity dated before the year is in it (older)
\* and whether the list is empty
ActivityPage(kind, hits, older) == [kind |-> kind, hits |-> hits, older |-> older]

EmptyActivityPage == ActivityPage("empty", <<>>, FALSE)

ActivityAnswers ==
    { ActivityPage("raise", <<>>, FALSE), EmptyActivityPage,
      ActivityPage("batch", <<1>>, FALSE), ActivityPage("batch", <<>>, TRUE) }

\* a page of get_workouts: the workoutId and the scheduledWorkoutId values of
\* its items, and whether it holds limit items
WorkoutPage(kind, ids, sched, full) ==
    [kind |-> kind, ids |-> ids, sched |-> sched, full |-> full]

EmptyWorkoutPage == WorkoutPage("items", <<>>, <<>>, FALSE)

WorkoutAnswers ==
    { WorkoutPage("raise", <<>>, <<>>, FALSE),
      WorkoutPage("items", <<1>>, <<>>, TRUE),
      WorkoutPage("items", <<2>>, <<2>>, FALSE) }

\* one answer of a single call: the ids of the list it returns
ListAnswer(kind, ids) == [kind |-> kind, ids |-> ids]

ListAnswers == { ListAnswer("raise", <<>>), ListAnswer("ok", <<1>>) }

\* get_user_profile: the userProfileNumber and profileId fields of the dict
ProfileAnswer(kind, userProfileNumber, profileId) ==
    [kind |-> kind, userProfileNumber |-> userProfileNumber, profileId |-> profileId]

EmptyProfile == ProfileAnswer("ok", 0, 0)

ProfileAnswers ==
    { ProfileAnswer("raise", 0, 0), ProfileAnswer("ok", 1, 0), ProfileAnswer("ok", 0, 2),
      ProfileAnswer("ok", 1, 2), EmptyProfile }

\* get_device_last_used: the userProfileNumber and deviceId fields of the dict
LastUsedAnswer(kind, userProfileNumber, deviceId) ==
    [kind |-> kind, userProfileNumber |-> userProfileNumber, deviceId |-> deviceId]

EmptyLastUsed == LastUsedAnswer("ok", 0, 0)

LastUsedAnswers == { LastUsedAnswer("raise", 0, 0), LastUsedAnswer("ok", 2, 2), EmptyLastUsed }

RECURSIVE ScriptsUpTo(_, _)
ScriptsUpTo(answers, n) ==
    IF n = 0 THEN { <<>> }
    ELSE LET shorter == ScriptsUpTo(answers, n - 1)
         IN shorter \cup { Append(s, a) : s \in { t \in shorter : Len(t) = n - 1 },
                                          a \in answers }

\* the answers the service can give a bootstrap source
AnswersOf(source) ==
    CASE source = "activities" -> ScriptsUpTo(ActivityAnswers, MaxSeedPages)
      [] source = "workouts" -> ScriptsUpTo(WorkoutAnswers, MaxSeedPages)
      [] source = "profile" -> ProfileAnswers
      [] source = "last_used" -> LastUsedAnswers
      [] OTHER -> ListAnswers

\* what the service answers the get_activities requests past the end of the
\* script: an empty page, or for ever a page with an activity of the year
ActivityRests == { EmptyActivityPage, ActivityPage("batch", <<1>>, FALSE) }

\* the services build_seed_context is applied to: their activity feed ends
\* with the script
Services ==
    [activities : AnswersOf("activities"),
     activities_rest : { EmptyActivityPage },
     workouts : AnswersOf("workouts"),
     devices : AnswersOf("devices"),
     profile : AnswersOf("profile"),
     last_used : AnswersOf("last_used"),
     gear : AnswersOf("gear"),
     plans : AnswersOf("plans")]

\* fetch_activities_for_year.  The loop state is the page, the count of
\* empty pages and the activities kept (their ids), with stopped once the
\* loop has been left; raised records, for the properties, that it was left
\* on a call that raised, and requests the number of pages requested (page k
\* is the request with start = k * limit).
ActivityLoopStart ==
    [page |-> 0, empty_pages |-> 0, activities |-> <<>>, stopped |-> FALSE,
     raised |-> FALSE, requests |-> 0]

\* lines 267-296: the loop test and one round of the loop
ActivityRound(script, rest, st) ==
    IF st.stopped THEN st
    ELSE IF ~(st.page < ActivityPageCeiling) THEN [st EXCEPT !.stopped = TRUE]
    ELSE LET batch == IF st.page + 1 <= Len(script) THEN script[st.page + 1] ELSE rest
             asked == [st EXCEPT !.requests = st.page + 1]
         IN IF batch.kind = "raise"
            THEN [asked EXCEPT !.stopped = TRUE, !.raised = TRUE]
            ELSE IF batch.kind = "empty"
            THEN IF st.empty_pages + 1 >= 2
                 THEN [asked EXCEPT !.empty_pages = 2, !.stopped = TRUE]
                 ELSE [asked EXCEPT !.empty_pages = st.empty_pages + 1,
                                    !.page = st.page + 1]
            ELSE LET kept == [asked EXCEPT !.empty_pages = 0,
                                           !.activities = st.activities \o batch.hits,
                                           !.page = st.page + 1]
                 IN IF batch.hits = <<>> /\ batch.older
                    THEN [kept EXCEPT !.stopped = TRUE]
                    ELSE kept

\* n rounds of the loop, taken half by half
RECURSIVE FetchActivitiesFrom(_, _, _, _)
FetchActivitiesFrom(script, rest, st, n) ==
    IF n = 0 THEN st
    ELSE IF n = 1 THEN ActivityRound(script, rest, st)
    ELSE LET half == FetchActivitiesFrom(script, rest, st, n \div 2)
         IN IF half.stopped THEN half
            ELSE FetchActivitiesFrom(script, rest, half, n - n \div 2)

\* the loop is left after at most ActivityPageCeiling rounds and one more test
fetch_activities_for_year(script, rest) ==
    FetchActivitiesFrom(script, rest, ActivityLoopStart, ActivityPageCeiling + 1)

\* fetch_all_workouts from the top of its loop: a call that raises ends the
\* function by the exception, the pages fetched before it are lost with it
RECURSIVE FetchWorkoutsFrom(_, _, _, _)
FetchWorkoutsFrom(script, start, ids, sched) ==
    IF ~(start < WorkoutCeiling)
    THEN [raised |-> FALSE, ids |-> ids, sched |-> sched]
    ELSE LET k == start \div WorkoutLimit + 1
             payload == IF k <= Len(script) THEN script[k] ELSE EmptyWorkoutPage
         IN IF payload.kind = "raise"
            THEN [raised |-> TRUE, ids |-> <<>>, sched |-> <<>>]
            ELSE IF payload.ids = <<>>
            THEN [raised |-> FALSE, ids |-> ids, sched |-> sched]
            ELSE IF ~payload.full
            THEN [raised |-> FALSE, ids |-> ids \o payload.ids,
                  sched |-> sched \o payload.sched]
            ELSE FetchWorkoutsFrom(script, start + WorkoutLimit, ids \o payload.ids,
                                   sched \o payload.sched)

fetch_all_workouts(script) == FetchWorkoutsFrom(script, 0, <<>>, <<>>)

\* the ids of a field over the answers that carry it
Present(id) == IF id = 0 THEN <<>> ELSE <<id>>

\* lines 345-349: the except clause of build_seed_context
WorkoutsOf(service) ==
    LET got == fetch_all_workouts(service.workouts)
    IN IF got.raised THEN [raised |-> TRUE, ids |-> <<>>, sched |-> <<>>] ELSE got

\* lines 373-382
ProfileOf(service) == IF service.profile.kind = "raise" THEN EmptyProfile ELSE service.profile

\* lines 384-393
LastUsedOf(service) ==
    IF service.last_used.kind = "raise" THEN EmptyLastUsed ELSE service.last_used

\* the seed context, its date fields apart (StartDate, EndDate and Dates give
\* them from the year).  gear_called records whether get_gear was issued.
build_seed_context(service) ==
    LET activities == fetch_activities_for_year(service.activities, service.activities_rest).activities
        workouts == WorkoutsOf(service)
        devices == IF service.devices.kind = "raise" THEN <<>> ELSE service.devices.ids
        profile == ProfileOf(service)
        last_used == LastUsedOf(service)
        user_profile_numbers ==
            SortedSeq(Range(Present(profile.userProfileNumber) \o Present(profile.profileId)
                            \o Present(last_used.userProfileNumber)))
        device_ids == SortedSeq(Range(devices \o Present(last_used.deviceId)))
        gear_called == user_profile_numbers # <<>>
        gears == IF gear_called /\ service.gear.kind = "ok" THEN service.gear.ids ELSE <<>>
        training_plans == IF service.plans.kind = "raise" THEN <<>> ELSE service.plans.ids
    IN [activity_ids |-> SortedSeq(Range(activities)),
        workout_ids |-> SortedSeq(Range(workouts.ids)),
        scheduled_workout_ids |-> SortedSeq(Range(workouts.sched)),
        device_ids |-> device_ids,
        user_profile_numbers |-> user_profile_numbers,
        gear_uuids |-> SortedSeq(Range(gears)),
        plan_ids |-> SortedSeq(Range(training_plans)),
        cached_method_data |->
            [get_activities |-> activities,
             get_workouts |-> workouts.ids,
             get_devices |-> devices,
             get_user_profile |-> profile,
             get_device_last_used |-> last_used,
             get_gear |-> gears,
             get_training_plans |-> training_plans],
        gear_called |-> gear_called]

ApplyBootstrap ==
    /\ ~fn_in.applied
    /\ \E service \in Services :
        /\ fn_in' = [applied |-> TRUE, service |-> service]
        /\ fn_out' = build_seed_context(service)
    /\ UNCHANGED <<harvestVars, call_in, call_out>>

NextSeed == ApplyBootstrap

SpecSeed == InitCall /\ [][NextSeed]_vars

(***************************************************************************)
(* fetch_activities_for_year on its own, over longer scripts, pages with   *)
(* both activities of the year and older ones, and feeds without end       *)
(***************************************************************************)
PageAnswers == ActivityAnswers \cup { ActivityPage("batch", <<2>>, TRUE) }

ApplyFetchActivities ==
    /\ ~fn_in.applied
    /\ \E script \in ScriptsUpTo(PageAnswers, MaxSeedPages + 1), rest \in ActivityRests :
        /\ fn_in' = [applied |-> TRUE, script |-> script, rest |-> rest]
        /\ fn_out' = fetch_activities_for_year(script, rest)
    /\ UNCHANGED <<harvestVars, call_in, call_out>>

NextPages == ApplyFetchActivities

SpecPages == InitCall /\ [][NextPages]_vars

(***************************************************************************)
(* execute_paged_method on its own, with the callback on_paged_chunk_done  *)
(* execute_method_for_year passes it.  The remote service is a script of   *)
(* answers to the requests of the run, in order, and the answer it gives   *)
(* every later request; write_raises holds the numbers of the callback     *)
(* invocations whose write_json raises.                                    *)
(***************************************************************************)
\* an answer to a paged request: it raises (retries of safe_call included) or
\* returns n items
PagedAnswer(kind, n) == [kind |-> kind, n |-> n]

PagedAnswers ==
    { PagedAnswer("raise", 0), PagedAnswer("items", 0),
      PagedAnswer("items", PageLimit \div 2), PagedAnswer("items", PageLimit) }

PagedRests == { PagedAnswer("items", 0), PagedAnswer("items", PageLimit) }

\* the values of resume_start: multiples of the page size up to the ceiling
StartFroms == { 0, PageLimit, PageCeiling - PageLimit, PageCeiling }

WriteFaults == SUBSET (1..2)

\* lines 562-566, on the envelope of a method without earlier records.  calls
\* is the history of the start values requested, callbacks the number of
\* callback invocations; stopped and raised say that the loop has been left
\* and that an exception left execute_paged_method.
PagedLoopStart(start_from) ==
    [page_start |-> IF start_from > 0 THEN start_from ELSE 0,
     request_args |-> <<>>, data |-> <<>>, errors |-> <<>>,
     calls |-> <<>>, callbacks |-> 0, stopped |-> FALSE, raised |-> FALSE]

\* on_paged_chunk_done up to its write, lines 685-693
on_paged_chunk_done(st, ok, n) ==
    [st EXCEPT !.request_args = Append(@, st.page_start),
               !.data = IF ok THEN Append(@, [start |-> st.page_start, items |-> n])
                        ELSE @,
               !.errors = IF ok THEN @ ELSE Append(@, [start |-> st.page_start]),
               !.callbacks = @ + 1]

\* lines 587-591: the callback is given the error; an exception of its write
\* leaves the function
PagedExceptKeepGoing(st, write_raises) ==
    LET noted == on_paged_chunk_done(st, FALSE, 0)
    IN IF noted.callbacks \in write_raises
       THEN [noted EXCEPT !.stopped = TRUE, !.raised = TRUE]
       ELSE [noted EXCEPT !.page_start = @ + PageLimit]

PagedExcept(st, write_raises) ==
    LET noted == on_paged_chunk_done(st, FALSE, 0)
    IN IF noted.callbacks \in write_raises
       THEN [noted EXCEPT !.stopped = TRUE, !.raised = TRUE]
       ELSE [noted EXCEPT !.stopped = TRUE]

\* lines 568-586: the loop test and one round of the loop
PagedRound(script, rest, write_raises, st) ==
    IF st.stopped THEN st
    ELSE IF ~(st.page_start < PageCeiling) THEN [st EXCEPT !.stopped = TRUE]
    ELSE LET chunk_no == Len(st.calls) + 1
             answer == IF chunk_no <= Len(script) THEN script[chunk_no] ELSE rest
             called == [st EXCEPT !.calls = Append(@, st.page_start)]
         IN IF answer.kind = "raise" THEN PagedExcept(called, write_raises)
            ELSE LET noted == on_paged_chunk_done(called, TRUE, answer.n)
                 IN IF noted.callbacks \in write_raises
                    THEN PagedExcept(noted, write_raises)
                    ELSE IF answer.n = 0 \/ answer.n < PageLimit
                    THEN [noted EXCEPT !.stopped = TRUE]
                    ELSE [noted EXCEPT !.page_start = @ + PageLimit]

\* n rounds of the loop, taken half by half
RECURSIVE PagedRounds(_, _, _, _, _)
PagedRounds(script, rest, write_raises, st, n) ==
    IF n = 0 THEN st
    ELSE IF n = 1 THEN PagedRound(script, rest, write_raises, st)
    ELSE LET half == PagedRounds(script, rest, write_raises, st, n \div 2)
         IN IF half.stopped THEN half
            ELSE PagedRounds(script, rest, write_raises, half, n - n \div 2)

\* the loop is left after at most PageCeiling / PageLimit rounds and one more test
execute_paged_method(script, rest, write_raises, start_from) ==
    PagedRounds(script, rest, write_raises, PagedLoopStart(start_from),
                PageCeiling \div PageLimit + 1)

ApplyPaged ==
    /\ ~fn_in.applied
    /\ \E script \in ScriptsUpTo(PagedAnswers, MaxSeedPages + 1), rest \in PagedRests,
          write_raises \in WriteFaults, start_from \in StartFroms :
        /\ fn_in' = [applied |-> TRUE, script |-> script, rest |-> rest,
                     write_raises |-> write_raises, start_from |-> start_from]
        /\ fn_out' = execute_paged_method(script, rest, write_raises, start_from)
    /\ UNCHANGED <<harvestVars, call_in, call_out>>

NextPaged == ApplyPaged

SpecPaged == InitCall /\ [][NextPaged]_vars

(***************************************************************************)
(* Properties                                                              *)
(***************************************************************************)
IsPaged(sp) == classify_call_type(sp.method, sp.params) = "paged"

FeedSpecs == Range(methods)

\* the three lists of an envelope
Lists(e) == <<e.request_args, e.data, e.errors>>

IsPrefix(a, b) == Len(a) <= Len(b) /\ SubSeq(b, 1, Len(a)) = a

UniqueKeys(data) ==
    \A i, j \in 1..Len(data) :
        request_key(data[i].request) = request_key(data[j].request) => i = j

\* the start values of the success records of an envelope
DataStarts(e) ==
    { KwGet(e.data[i].request, "start") : i \in 1..Len(e.data) } \ {-1}

MaxOf(S) == CHOOSE s \in S : \A t \in S : t <= s

\* C1: Idempotence.  In a run with overwrite = false, a method whose
\* persisted envelope had status success or skipped when the run started gets
\* no remote call from its unit of work, and its envelope file stays what it
\* was.
C1_Idempotent ==
    \A sp \in FeedSpecs :
        (run > 0 /\ ~overwrite
            /\ startFile[OutputFile(sp)].status \in {"success", "skipped"})
            => /\ issued[OutputFile(sp)] = <<>>
               /\ file[OutputFile(sp)] = startFile[OutputFile(sp)]

\* a run without overwrite has returned from run_method for a method whose
\* envelope was complete when the run started
C1_Witness ==
    \E i \in 1..Len(methods) :
        /\ ~overwrite
        /\ startFile[OutputFile(methods[i])].status \in {"success", "skipped"}
        /\ done[i] = "ok"
        /\ items[i].status = startFile[OutputFile(methods[i])].status

\* C2: Dedup.  For a method that is not paged: the data of its envelope, on
\* disk and in memory, never holds two success records with the same
\* canonical request key, and a run without overwrite never issues a call
\* whose key had a success record when the run started.
C2_Dedup ==
    /\ \A sp \in FeedSpecs :
        ~IsPaged(sp) =>
            /\ UniqueKeys(file[OutputFile(sp)].data)
            /\ ~overwrite =>
                 \A k \in 1..Len(issued[OutputFile(sp)]) :
                     request_key(issued[OutputFile(sp)][k])
                         \notin get_completed_request_keys(startFile[OutputFile(sp)])
    /\ \A w \in Workers : (cur[w] # 0 /\ ~IsPaged(CurSpec(w))) => UniqueKeys(env[w].data)

\* a resumed run of an unpaged method has issued a call although success
\* records of an earlier run were there
C2_Witness ==
    \E sp \in FeedSpecs :
        /\ ~IsPaged(sp)
        /\ ~overwrite
        /\ startFile[OutputFile(sp)].data # <<>>
        /\ issued[OutputFile(sp)] # <<>>
        /\ Len(file[OutputFile(sp)].data) > Len(startFile[OutputFile(sp)].data)

\* C3: Crash safety.  Whenever a loop is about to issue a remote call, the
\* lists of the envelope on disk are those of the envelope in memory; between
\* a call and its write the disk lags by the outcome of that one call only.
C3_CrashSafe ==
    \A w \in Workers :
        pc[w] \in {"seq_call", "seq_write", "paged_call", "paged_write"} =>
            LET f == file[CurPath(w)]
                e == env[w]
                calls == issued[CurPath(w)]
            IN /\ pc[w] \in {"seq_call", "paged_call"} => Lists(f) = Lists(e)
               /\ IsPrefix(f.request_args, e.request_args)
               /\ IsPrefix(f.data, e.data)
               /\ IsPrefix(f.errors, e.errors)
               /\ \A k \in (Len(f.request_args) + 1)..Len(e.request_args) :
                      calls # <<>> /\ e.request_args[k] = calls[Len(calls)]

\* the paged loop is about to issue a further request of the same run
C3_Witness ==
    \E w \in Workers :
        /\ pc[w] = "paged_call"
        /\ issued[CurPath(w)] # <<>>
        /\ Len(file[CurPath(w)].data) >= 1

\* C4: Paged resume.  In a run without overwrite of a paged method whose
\* envelope held success records with highest start K when the run started,
\* the first request has start = K + limit, every request has start > K and
\* no start of a success record is requested again.
C4_PagedResume ==
    \A sp \in FeedSpecs :
        (IsPaged(sp) /\ ~overwrite /\ DataStarts(startFile[OutputFile(sp)]) # {}) =>
            LET K == MaxOf(DataStarts(startFile[OutputFile(sp)]))
                calls == issued[OutputFile(sp)]
            IN \A k \in 1..Len(calls) :
                /\ KwGet(calls[k], "start") > K
                /\ KwGet(calls[k], "start") \notin DataStarts(startFile[OutputFile(sp)])
                /\ k = 1 => KwGet(calls[k], "start") = K + PagedLimit(sp.method)

\* a resumed paged run has issued a request, the highest completed start
\* being above 0
C4_Witness ==
    \E sp \in FeedSpecs :
        /\ IsPaged(sp)
        /\ ~overwrite
        /\ DataStarts(startFile[OutputFile(sp)]) # {}
        /\ MaxOf(DataStarts(startFile[OutputFile(sp)])) > 0
        /\ issued[OutputFile(sp)] # <<>>

\* C5: no request of an envelope on disk appears both in a data record and
\* in an errors record.
C5_DataOrErrors ==
    \A sp \in FeedSpecs :
        LET f == file[OutputFile(sp)]
        IN \A i \in 1..Len(f.data), j \in 1..Len(f.errors) :
               f.errors[j].has_request => f.data[i].request # f.errors[j].request

\* the status table of C6 on the stats of a returned envelope
SuccessPartialTable(it) ==
    /\ it.status = "success" <=> (it.success_calls > 0 /\ it.failed_calls = 0)
    /\ it.status = "partial" <=> (it.success_calls > 0 /\ it.failed_calls > 0)

\* C6: every envelope run_method returned has status success iff
\* success_calls > 0 and failed_calls = 0, and partial iff success_calls > 0
\* and failed_calls > 0.
C6_SuccessPartial ==
    \A i \in 1..Len(methods) : done[i] = "ok" => SuccessPartialTable(items[i])

\* the skip reasons build_calls_for_method returns
SkipReasons ==
    {"download_disabled", "id_param_not_mapped", "date_range_unresolved",
     "special_unresolved", "unsupported_call_type"}
        \cup { MissingSeed(ID_PARAM_TO_SEED_KEY[k][2]) : k \in 1..Len(ID_PARAM_TO_SEED_KEY) }

\* whether a skip reason is recorded in the envelope a path holds
HasSkipReason(e) ==
    \E j \in 1..Len(e.errors) :
        /\ ~e.errors[j].has_request
        /\ e.errors[j].error \in SkipReasons

\* C7: every envelope run_method returned has status failed iff
\* attempted_calls > 0 and success_calls = 0, and skipped iff
\* attempted_calls = 0 and a skip reason is recorded.
C7_FailedSkipped ==
    \A i \in 1..Len(methods) :
        done[i] = "ok" =>
            /\ items[i].status = "failed"
                 <=> (items[i].attempted_calls > 0 /\ items[i].success_calls = 0)
            /\ items[i].status = "skipped"
                 <=> (items[i].attempted_calls = 0
                        /\ HasSkipReason(file[OutputFile(methods[i])]))

\* C8: every envelope on disk has success_calls + failed_calls <=
\* attempted_calls.
C8_StatsBound ==
    \A sp \in FeedSpecs :
        LET f == file[OutputFile(sp)]
        IN f.status # "absent" => f.success_calls + f.failed_calls <= f.attempted_calls

\* C9: every envelope on disk has attempted_calls = len(request_args),
\* success_calls = len(data) and failed_calls = len(errors).
C9_StatsMatchLists ==
    \A sp \in FeedSpecs :
        LET f == file[OutputFile(sp)]
        IN f.status # "absent" =>
            /\ f.attempted_calls = Len(f.request_args)
            /\ f.success_calls = Len(f.data)
            /\ f.failed_calls = Len(f.errors)

\* an envelope on disk holds the outcomes of two calls, one of them failed
C9_Witness ==
    \E sp \in FeedSpecs :
        /\ Len(file[OutputFile(sp)].request_args) >= 2
        /\ file[OutputFile(sp)].errors # <<>>
        /\ file[OutputFile(sp)].data # <<>>

\* C10: Error isolation.  When a run has ended (not interrupted) and an
\* exception was raised inside run_method for some method, that method's
\* envelope is on disk as failed with exactly one error entry, every
\* scheduled method was executed, and the manifest was written with an entry
\* for every scheduled method.
C10_ErrorIsolation ==
    (phase = "idle" /\ outcome \in {"manifest", "aborted"} /\ exc_seen # {}) =>
        /\ \A i \in exc_seen :
              /\ file[OutputFile(methods[i])].status = "failed"
              /\ Len(file[OutputFile(methods[i])].errors) = 1
        /\ \A k \in 1..Len(indexed_specs) : done[indexed_specs[k]] \in {"ok", "raised"}
        /\ outcome = "manifest"
        /\ manifest.written
        /\ manifest.total_methods = Len(indexed_specs)

\* C11: Manifest order.  Whatever order the workers completed in, the
\* methods list of the manifest a run wrote holds the scheduled methods in
\* MethodSpec order, the order the sequential loop produces.
C11_ManifestOrder ==
    outcome = "manifest" =>
        /\ Len(manifest.methods) = Len(indexed_specs)
        /\ \A k \in 1..Len(manifest.methods) :
              /\ k <= Len(indexed_specs)
              /\ manifest.methods[k].method = methods[indexed_specs[k]].method
              /\ manifest.methods[k].section_slug = methods[indexed_specs[k]].section_slug
              /\ manifest.methods[k] = items[indexed_specs[k]]

\* the pool's second method completed before its first one and the manifest
\* was written
C11_Witness ==
    /\ outcome = "manifest"
    /\ PoolActive
    /\ Len(collected) = 2
    /\ collected[1] > collected[2]

\* C12: while the pool is active, every remote call a pool thread made went
\* to the one session that thread constructed and cached, and no session
\* object was used for remote calls by two different threads.
C12_WorkerSessions ==
    (phase = "running" /\ PoolActive) =>
        /\ \A s \in Sessions : Cardinality(used[s]) <= 1
        /\ \A w \in PoolWorkers : \A s \in Sessions : w \in used[s] => s = wclient[w]

\* C13: with max_workers = 1 at most one method is in progress, a method has
\* started or issued a call only when every scheduled method before it has
\* returned, and every remote call went to the client passed to
\* collect_year_data, from the calling thread.
C13_Sequential ==
    max_workers = 1 =>
        /\ Cardinality({ i \in 1..Len(methods) : done[i] = "running" }) <= 1
        /\ \A k \in 1..Len(indexed_specs) :
              (done[indexed_specs[k]] # "todo"
                 \/ issued[OutputFile(methods[indexed_specs[k]])] # <<>>)
                 => \A j \in 1..(k - 1) : done[indexed_specs[j]] = "ok"
        /\ used["client"] \subseteq {"main"}
        /\ \A s \in Sessions \ {"client"} : used[s] = {}

\* one worker, a client_factory given: the second method has issued a call
\* after the first one returned
C13_Witness ==
    /\ max_workers = 1
    /\ has_factory
    /\ Len(indexed_specs) = 2
    /\ done[indexed_specs[1]] = "ok"
    /\ issued[OutputFile(methods[indexed_specs[1]])] # <<>>
    /\ issued[OutputFile(methods[indexed_specs[2]])] # <<>>
    /\ used["client"] = {"main"}

\* the errors safe_call retries
Retryable == RemoteAnswers \ {"ok", "client400"}

\* C14: Retry bound.  safe_call invokes the remote operation at most
\* retries + 1 times; it returns on the first attempt that succeeds; when
\* every attempt fails with a retryable error it makes exactly retries + 1
\* attempts and raises the error of the last one.
C14_RetryBound ==
    call_in.applied =>
        LET r == call_out.result
            a == call_in.answers
            n == call_in.retries + 1
        IN /\ r.attempts <= n
           /\ call_in.has_fn =>
                /\ r.attempts >= 1
                /\ r.ok => /\ a[r.attempts] = "ok"
                           /\ \A k \in 1..(r.attempts - 1) : a[k] # "ok"
                /\ \A k \in 1..n :
                      (a[k] = "ok" /\ \A j \in 1..(k - 1) : a[j] \in Retryable)
                          => (r.ok /\ r.attempts = k)
                /\ (\A k \in 1..n : a[k] \in Retryable)
                      => (~r.ok /\ r.attempts = n /\ r.error = a[n])

\* three attempts failed with retryable errors, the first and the last one
\* with different ones
C14_Witness ==
    /\ call_in.applied
    /\ call_in.has_fn
    /\ call_in.retries = 2
    /\ \A k \in 1..3 : call_in.answers[k] \in Retryable
    /\ call_in.answers[1] # call_in.answers[3]
    /\ ~call_out.result.ok
    /\ call_out.result.attempts = 3

\* C15: Non-retryable short-circuit.  When an attempt fails with the 400
\* client-error signature, safe_call makes no further attempt and raises that
\* error; the loop body records the call as exactly one failed call.
C15_ShortCircuit ==
    (call_in.applied /\ call_in.has_fn) =>
        LET r == call_out.result
            e == call_out.envelope
            a == call_in.answers
        IN \A k \in 1..(call_in.retries + 1) :
              (a[k] = "client400" /\ \A j \in 1..(k - 1) : a[j] \in Retryable) =>
                  /\ ~r.ok
                  /\ r.attempts = k
                  /\ r.error = "client400"
                  /\ e.request_args = <<CallKwargs>>
                  /\ e.data = <<>>
                  /\ e.errors = <<ErrorRecord(CallKwargs, ErrorText("client400"))>>
                  /\ e.attempted_calls = 1
                  /\ e.success_calls = 0
                  /\ e.failed_calls = 1

\* retries were left and the first attempt failed with the 400 signature
C15_Witness ==
    /\ call_in.applied
    /\ call_in.has_fn
    /\ call_in.retries = 2
    /\ call_in.answers[1] = "client400"
    /\ call_out.result.attempts = 1
    /\ call_out.envelope.failed_calls = 1

\* the case of C16 for the method at index i: the orchestrator ran it in this
\* run without an exception, the seed context holds a non-empty payload
\* cached under its name and the envelope it started from had no success
\* record
AdoptionCase(i) ==
    /\ done[i] = "ok"
    /\ i \notin exc_seen
    /\ methods[i].method \in CachedMethods
    /\ ctx.cached[methods[i].method] = "payload"
    /\ startFile[OutputFile(methods[i])].status \notin {"success", "skipped"}
    /\ startFile[OutputFile(methods[i])].data = <<>>

\* C16: Seed-cache adoption.  In that case no remote call was issued for the
\* method, exactly one success record with request {source: seed_cache} was
\* appended, and the envelope was persisted and returned with status success.
C16_SeedCacheAdoption ==
    \A i \in 1..Len(methods) :
        AdoptionCase(i) =>
            LET p == OutputFile(methods[i])
            IN /\ issued[p] = <<>>
               /\ file[p].request_args = Append(startFile[p].request_args, SeedCacheRequest)
               /\ file[p].data = <<DataRecord(SeedCacheRequest, 1)>>
               /\ file[p].errors = startFile[p].errors
               /\ file[p].status = "success"
               /\ file[p].success_calls = 1
               /\ items[i].status = "success"

\* a paged method was completed from the seed cache
C16_Witness ==
    \E i \in 1..Len(methods) :
        /\ AdoptionCase(i)
        /\ IsPaged(methods[i])
        /\ Len(file[OutputFile(methods[i])].data) = 1

\* the orchestrator ran the method at index i in this run (its envelope was
\* not complete when the run started) and no exception reached run_method
OrchestratorRan(i) ==
    /\ done[i] = "ok"
    /\ i \notin exc_seen
    /\ startFile[OutputFile(methods[i])].status \notin {"success", "skipped"}

PlanOf(i) ==
    build_calls_for_method(methods[i],
                           classify_call_type(methods[i].method, methods[i].params),
                           ctx, include_downloads)

\* the case of C17 for the method at index i: planning returned no call and
\* a skip reason
SkipCase(i) ==
    /\ OrchestratorRan(i)
    /\ ~HasCachedData(ctx, methods[i].method)
    /\ ~IsPaged(methods[i])
    /\ PlanOf(i).calls = <<>>
    /\ PlanOf(i).skip_reason # NoSkip

\* C17: Skip path.  In that case no remote call was issued for the method
\* in this run, and the envelope was persisted and returned with status
\* skipped and the reason as its last errors entry, its request_args and data
\* left as they were.
C17_SkipPath ==
    \A i \in 1..Len(methods) :
        SkipCase(i) =>
            LET p == OutputFile(methods[i])
            IN /\ issued[p] = <<>>
               /\ PlanOf(i).skip_reason \in SkipReasons
               /\ file[p].status = "skipped"
               /\ items[i].status = "skipped"
               /\ file[p].errors =
                      Append(startFile[p].errors, BareError(PlanOf(i).skip_reason))
               /\ file[p].request_args = startFile[p].request_args
               /\ file[p].data = startFile[p].data

\* one run skipped a method for a missing seed, or skipped two methods for
\* two different reasons
C17_Witness ==
    \/ \E i \in 1..Len(methods) :
          /\ SkipCase(i)
          /\ PlanOf(i).skip_reason = "missing_seed:activity_ids"
          /\ include_downloads
          /\ \E j \in 1..Len(methods) :
                /\ SkipCase(j)
                /\ PlanOf(j).skip_reason = "special_unresolved"

\* the methods of the feed the scheduling filter of C18 leaves out
FilteredOut(i) ==
    \/ methods[i].method \in {"get_stats", "get_stress_data", "get_activities_by_date"}
    \/ (selected_sections # {} /\ methods[i].section_slug \notin selected_sections)

EntriesOf(i) ==
    { k \in 1..Len(manifest.methods) :
        /\ manifest.methods[k].method = methods[i].method
        /\ manifest.methods[k].section_slug = methods[i].section_slug }

\* C18: Scheduling filter.  A method that is excluded or outside a non-empty
\* section filter is never started, gets no remote call, keeps its file and
\* has no entry in the manifest the run writes; every other method of the
\* feed has exactly one entry in it.
C18_SchedulingFilter ==
    \A i \in 1..Len(methods) :
        /\ (run > 0 /\ FilteredOut(i)) =>
              /\ done[i] = "todo"
              /\ issued[OutputFile(methods[i])] = <<>>
              /\ file[OutputFile(methods[i])] = startFile[OutputFile(methods[i])]
              /\ outcome = "manifest" => EntriesOf(i) = {}
        /\ (outcome = "manifest" /\ ~FilteredOut(i)) =>
              /\ Cardinality(EntriesOf(i)) = 1
              /\ done[i] = "ok"

\* a run with a section filter wrote its manifest: an excluded method and a
\* method of another section were left out, a selected method was run
C18_Witness ==
    /\ outcome = "manifest"
    /\ selected_sections # {}
    /\ \E i, j, k \in 1..Len(methods) :
          /\ methods[i].method \in EXCLUDED_METHODS
          /\ methods[j].method \notin EXCLUDED_METHODS
          /\ methods[j].section_slug \notin selected_sections
          /\ methods[k].section_slug \in selected_sections
          /\ Cardinality(EntriesOf(k)) = 1

\* C19: with include_downloads off, a method classified download that the
\* orchestrator ran got no remote call and ended skipped with the reason
\* download_disabled, whatever its parameters and the seed sets.
C19_DownloadDisabled ==
    \A i \in 1..Len(methods) :
        (/\ OrchestratorRan(i)
         /\ ~include_downloads
         /\ classify_call_type(methods[i].method, methods[i].params) = "download") =>
            LET p == OutputFile(methods[i])
            IN /\ issued[p] = <<>>
               /\ file[p].status = "skipped"
               /\ items[i].status = "skipped"
               /\ file[p].errors # <<>>
               /\ file[p].errors[Len(file[p].errors)] = BareError("download_disabled")

\* downloads were off: a download method with an id parameter but no seed
\* ids and one without any id parameter both ended as download_disabled
C19_Witness ==
    /\ ~include_downloads
    /\ ctx.activity_ids = <<>>
    /\ \E i, j \in 1..Len(methods) :
          /\ OrchestratorRan(i)
          /\ OrchestratorRan(j)
          /\ methods[i].method = "download_activity"
          /\ methods[j].method = "download_archive"
          /\ file[OutputFile(methods[i])].status = "skipped"
          /\ file[OutputFile(methods[j])].status = "skipped"

\* Scenario A: one noarg spec and one id_based spec with two seed ids,
\* overwrite, one worker, every call succeeding
ScenarioA ==
    /\ methods = <<SpecFullName, SpecActivity>>
    /\ overwrite
    /\ max_workers = 1
    /\ selected_sections = {}
    /\ ctx.activity_ids = <<1, 2>>
    /\ ~call_failed
    /\ exc_seen = {}

\* C20: Manifest summary.  The manifest a run wrote has one entry per
\* scheduled method, total_methods is the number of entries, each status
\* count is the number of entries with that status, and the counts of the
\* five statuses add up to total_methods; in Scenario A both envelopes are
\* success, total_methods = 2 and success = 2 is the only count above 0.
C20_ManifestSummary ==
    outcome = "manifest" =>
        /\ Len(manifest.methods) = Len(indexed_specs)
        /\ manifest.total_methods = Len(manifest.methods)
        /\ \A st \in ManifestStatuses :
              manifest.status_counts[st] =
                  Cardinality({ k \in 1..Len(manifest.methods) :
                                  manifest.methods[k].status = st })
        /\ manifest.status_counts["success"] + manifest.status_counts["partial"]
             + manifest.status_counts["failed"] + manifest.status_counts["skipped"]
             + manifest.status_counts["pending"] = manifest.total_methods
        /\ ScenarioA =>
              /\ \A i \in 1..2 : file[OutputFile(methods[i])].status = "success"
              /\ manifest.total_methods = 2
              /\ manifest.status_counts["success"] = 2
              /\ \A st \in ManifestStatuses \ {"success"} : manifest.status_counts[st] = 0

\* Scenario A ran to its manifest, three remote calls issued
C20_Witness ==
    /\ outcome = "manifest"
    /\ ScenarioA
    /\ Len(issued[OutputFile(SpecFullName)]) = 1
    /\ Len(issued[OutputFile(SpecActivity)]) = 2

\* the rules of classification in their fixed order, each with its call type
ClassifyRules(method_name, params) ==
    LET ps == Range(params)
    IN << <<method_name \in {"download_activity"}, "download">>,
          <<method_name \in {"get_lactate_threshold", "get_goals", "get_race_predictions",
                             "get_progress_summary_between_dates"}, "special">>,
          <<Len(params) = 0, "noarg">>,
          <<method_name = "get_weekly_steps" \/ "weeks" \in ps, "weekly">>,
          <<"cdate" \in ps \/ "fordate" \in ps, "daily">>,
          <<"start" \in ps /\ "limit" \in ps, "paged">>,
          <<\E n \in {"startdate", "enddate", "start_date", "end_date"} : n \in ps,
            "date_range">>,
          <<\E n \in {"activity_id", "workout_id", "scheduled_workout_id", "device_id",
                      "userProfileNumber", "gearUUID", "plan_id"} : n \in ps,
            "id_based">>,
          <<TRUE, "special">> >>

\* C24: classify_call_type returns the call type of the first rule of the
\* fixed order that matches the method name and the parameter set.
C24_FirstMatch ==
    fn_in.applied =>
        LET rules == ClassifyRules(fn_in.method, fn_in.params)
            first == CHOOSE k \in 1..Len(rules) :
                         rules[k][1] /\ \A j \in 1..(k - 1) : ~rules[j][1]
        IN fn_out.call_type = rules[first][2]

\* a signature that matches the paged and the id rule was classified paged,
\* or one that matches the daily and the paged rule daily
C24_Witness ==
    /\ fn_in.applied
    /\ \/ /\ fn_in.method = "get_activity"
          /\ Range(fn_in.params) = {"activity_id", "start", "limit"}
          /\ fn_out.call_type = "paged"
       \/ /\ fn_in.method = "get_body_battery"
          /\ Range(fn_in.params) = {"start", "limit", "cdate"}
          /\ fn_out.call_type = "daily"

\* b is the calendar day after a (ISO dates)
DayAfter(a, b) == toordinal(strptime(b)) = toordinal(strptime(a)) + 1

\* the build_calls_for_method application is of the given call type
Built(call_type) == fn_in.applied /\ fn_in.call_type = call_type

\* C25: the daily plan has one call per calendar day of the year, from Jan 1
\* to Dec 31 in order without gap or duplicate (365 calls, 366 in a leap
\* year), each keyed by the date parameter the signature declares, and no
\* skip reason.
C25_DailyPlan ==
    Built("daily") =>
        LET calls == fn_out.calls
            y == fn_in.ctx.year
            ps == Range(fn_in.spec.params)
            leap == (y % 4 = 0 /\ y % 100 # 0) \/ y % 400 = 0
        IN /\ fn_out.skip_reason = NoSkip
           /\ Len(calls) = IF leap THEN 366 ELSE 365
           /\ \A k \in 1..Len(calls) :
                 /\ Len(calls[k]) = 1
                 /\ calls[k][1][1] \in ps \cap {"cdate", "fordate"}
                 /\ calls[k][1][1] = calls[1][1][1]
           /\ calls[1][1][2] = y * 10000 + 101
           /\ calls[Len(calls)][1][2] = y * 10000 + 1231
           /\ \A k \in 1..(Len(calls) - 1) : DayAfter(calls[k][1][2], calls[k + 1][1][2])

\* the daily plan of a leap year was built for a signature that declares
\* fordate: its 60th call is for Feb 29
C25_Witness ==
    /\ Built("daily")
    /\ fn_in.ctx.year = 2024
    /\ fn_in.spec.params = <<"fordate">>
    /\ Len(fn_out.calls) = 366
    /\ fn_out.calls[60] = << <<"fordate", 20240229>> >>

\* the case of C26: get_body_battery declaring startdate and enddate
Windowed ==
    /\ Built("date_range")
    /\ fn_in.spec.method = "get_body_battery"
    /\ {"startdate", "enddate"} \subseteq Range(fn_in.spec.params)

\* C26: the plan of get_body_battery(startdate, enddate) is a sequence of
\* windows: the first starts on Jan 1, the last ends on Dec 31, each starts
\* the day after the previous one ends and none spans more than 31 days.
C26_Windows ==
    Windowed =>
        LET calls == fn_out.calls
            y == fn_in.ctx.year
            s(k) == calls[k][1][2]
            e(k) == calls[k][2][2]
        IN /\ fn_out.skip_reason = NoSkip
           /\ Len(calls) >= 1
           /\ \A k \in 1..Len(calls) :
                 /\ Len(calls[k]) = 2
                 /\ calls[k][1][1] = "startdate"
                 /\ calls[k][2][1] = "enddate"
                 /\ toordinal(strptime(s(k))) <= toordinal(strptime(e(k)))
                 /\ toordinal(strptime(e(k))) - toordinal(strptime(s(k))) + 1 <= 31
           /\ s(1) = y * 10000 + 101
           /\ e(Len(calls)) = y * 10000 + 1231
           /\ \A k \in 1..(Len(calls) - 1) : DayAfter(e(k), s(k + 1))

\* the windows of a leap year and of a common year were planned: twelve
\* windows, the second one from Feb 1 to Mar 2 (leap) or Mar 3
C26_Witness ==
    /\ Windowed
    /\ Len(fn_out.calls) = 12
    /\ fn_in.ctx.year = 2024
    /\ fn_out.calls[2] = << <<"startdate", 20240201>>, <<"enddate", 20240302>> >>

\* the kwargs of the weekly call as far as start and end go
WeeklyBounds ==
    LET ps == Range(fn_in.spec.params)
        y == fn_in.ctx.year
        call == fn_out.calls[1]
    IN /\ fn_out.skip_reason = NoSkip
       /\ Len(fn_out.calls) = 1
       /\ KwGet(call, "start") = (IF "start" \in ps THEN y * 10000 + 101 ELSE -1)
       /\ KwGet(call, "end") = (IF "end" \in ps THEN y * 10000 + 1231 ELSE -1)

\* C27 as stated: the weekly plan is one call with no skip reason that
\* carries the declared start and end bounds and the parameter weeks = 52.
C27_WeeklyPlanStated ==
    Built("weekly") =>
        /\ WeeklyBounds
        /\ KwGet(fn_out.calls[1], "weeks") = 52

\* C27 amended: the weekly plan is one call with no skip reason that carries
\* the declared start and end bounds, and weeks = 52 if and only if the
\* signature declares a weeks parameter.
C27_WeeklyPlan ==
    Built("weekly") =>
        /\ WeeklyBounds
        /\ \A k \in 1..Len(fn_out.calls[1]) :
              fn_out.calls[1][k][1] \in Range(fn_in.spec.params)
        /\ KwGet(fn_out.calls[1], "weeks") =
              (IF "weeks" \in Range(fn_in.spec.params) THEN 52 ELSE -1)

\* a weekly method that declares start and end but no weeks was planned
C27_Witness ==
    /\ Built("weekly")
    /\ fn_in.spec.method = "get_weekly_intensity_minutes"
    /\ fn_in.ctx.year = 2023
    /\ fn_out.calls = << << <<"start", 20230101>>, <<"end", 20231231>> >> >>

\* the recognized start/end pairs the signature of the application declares
DeclaredPairs ==
    { pr \in { <<"startdate", "enddate">>, <<"start_date", "end_date">>,
               <<"start", "end">> } :
        {pr[1], pr[2]} \subseteq Range(fn_in.spec.params) }

\* C29: a date_range plan, the windowed method apart, is one call carrying
\* the first and the last day of the year under a recognized pair the
\* signature declares; with no recognized pair declared the plan is empty
\* with the skip reason date_range_unresolved.
C29_DateRangePlan ==
    (Built("date_range") /\ ~Windowed) =>
        LET y == fn_in.ctx.year
        IN IF DeclaredPairs # {}
           THEN /\ fn_out.skip_reason = NoSkip
                /\ Len(fn_out.calls) = 1
                /\ \E pr \in DeclaredPairs :
                      /\ KwGet(fn_out.calls[1], pr[1]) = y * 10000 + 101
                      /\ KwGet(fn_out.calls[1], pr[2]) = y * 10000 + 1231
           ELSE /\ fn_out.calls = <<>>
                /\ fn_out.skip_reason = "date_range_unresolved"

\* the table entries whose parameter the signature of the application declares
DeclaredIdEntries ==
    { k \in 1..Len(ID_PARAM_TO_SEED_KEY) :
        ID_PARAM_TO_SEED_KEY[k][1] \in Range(fn_in.spec.params) }

\* C30: with downloads enabled, an id_based or download plan has one call
\* per id of the seed list of the declared id parameter (the first of the
\* table when several are declared), each call carrying that parameter
\* alone; an empty seed list gives an empty plan with missing_seed:<key>, no
\* declared table parameter an empty plan with id_param_not_mapped.
C30_IdPlan ==
    ((Built("id_based") \/ Built("download")) /\ fn_in.include_downloads) =>
        IF DeclaredIdEntries = {}
        THEN fn_out = Plan(<<>>, "id_param_not_mapped")
        ELSE LET k == CHOOSE i \in DeclaredIdEntries : \A j \in DeclaredIdEntries : i <= j
                 param == ID_PARAM_TO_SEED_KEY[k][1]
                 seed_key == ID_PARAM_TO_SEED_KEY[k][2]
                 ids == IF seed_key = "activity_ids" THEN fn_in.ctx.activity_ids
                        ELSE IF seed_key = "gear_uuids" THEN fn_in.ctx.gear_uuids
                        ELSE <<>>
             IN IF ids = <<>>
                THEN fn_out = Plan(<<>>, MissingSeed(seed_key))
                ELSE /\ fn_out.skip_reason = NoSkip
                     /\ Len(fn_out.calls) = Len(ids)
                     /\ \A i \in 1..Len(ids) : fn_out.calls[i] = << <<param, ids[i]>> >>

\* a method declaring two id parameters was planned with no activity ids but
\* a gear uuid, and a download method with two activity ids
C30_Witness ==
    /\ fn_in.applied
    /\ fn_in.include_downloads
    /\ \/ /\ fn_in.spec.method = "add_gear_to_activity"
          /\ fn_in.ctx.activity_ids = <<>>
          /\ fn_in.ctx.gear_uuids = <<1>>
          /\ fn_out.skip_reason = "missing_seed:activity_ids"
       \/ /\ fn_in.spec.method = "download_activity"
          /\ fn_in.ctx.activity_ids = <<1, 2>>
          /\ Len(fn_out.calls) = 2

\* the threads inside run_method, and those with a remote call in flight
Executing == { w \in Workers : cur[w] # 0 }
InFlight == { w \in Workers : pc[w] = "in_call" }

\* the directory held no envelope of the feed when the run started
FreshStart ==
    \A i \in 1..Len(methods) : startFile[OutputFile(methods[i])].status = "absent"

\* C21: Scenario B.  Over two scheduled noarg methods, the method executions
\* and the remote calls in flight never exceed min(max_workers, number of
\* scheduled methods); in a run over a fresh directory no method is called
\* more than once, and each has been called exactly once when the manifest
\* is written.
C21_ScenarioB ==
    LET bound == IF max_workers <= Len(indexed_specs) THEN max_workers
                 ELSE Len(indexed_specs)
    IN /\ Cardinality(Executing) <= bound
       /\ Cardinality(InFlight) <= bound
       /\ (run > 0 /\ FreshStart) =>
             \A i \in 1..Len(methods) :
                /\ Len(issued[OutputFile(methods[i])]) <= 1
                /\ outcome = "manifest" => Len(issued[OutputFile(methods[i])]) = 1

\* max_workers = 2: the remote calls of the two methods are in flight at the
\* same time
C21_Witness ==
    /\ max_workers = 2
    /\ FreshStart
    /\ InFlight = PoolWorkers
    /\ cur["w1"] # cur["w2"]

\* the worker of a file is a thread executing the method the file belongs to
Owns(w, p) == cur[w] # 0 /\ OutputFile(methods[cur[w]]) = p

\* a step of a run that changes an envelope file is a step of one worker that
\* owns the file, and changes no other file
WritesByOwner ==
    \A p \in Paths :
        (phase = "running" /\ file'[p] # file[p]) =>
            /\ \E w \in Workers :
                  /\ Owns(w, p)
                  /\ pc'[w] # pc[w]
                  /\ \A w2 \in Workers \ {w} : pc'[w2] = pc[w2] /\ ~Owns(w2, p)
            /\ \A q \in Paths \ {p} : file'[q] = file[q]

\* no two threads execute the same scheduled method, and two scheduled
\* methods have different envelope files
OneWorkerPerMethod ==
    /\ \A w1, w2 \in Workers :
          (w1 # w2 /\ cur[w1] # 0 /\ cur[w2] # 0) =>
              /\ cur[w1] # cur[w2]
              /\ OutputFile(methods[cur[w1]]) # OutputFile(methods[cur[w2]])
    /\ \A i, j \in 1..Len(methods) :
          i # j => OutputFile(methods[i]) # OutputFile(methods[j])

\* C28: Single writer.  At any time at most one worker executes a given
\* scheduled method, every write of a method's envelope file is made by the
\* worker that executes the method, and two different scheduled methods
\* never write the same file.
C28_SingleWriter == []OneWorkerPerMethod /\ [][WritesByOwner]_vars

\* the two pool workers have each written the envelope of their own method
\* and are about to write it again
C28_Witness ==
    /\ max_workers = 2
    /\ pc["w1"] = "final_write"
    /\ pc["w2"] = "final_write"
    /\ cur["w1"] # cur["w2"]
    /\ \A w \in PoolWorkers : file[OutputFile(methods[cur[w]])] # startFile[OutputFile(methods[cur[w]])]

(***************************************************************************)
(* Bootstrap                                                               *)
(***************************************************************************)
Bootstrapped == fn_in.applied /\ "service" \in DOMAIN fn_in

Sources ==
    {"activities", "workouts", "devices", "profile", "last_used", "gear", "plans"}

IdLists ==
    {"activity_ids", "workout_ids", "scheduled_workout_ids", "device_ids",
     "user_profile_numbers", "gear_uuids", "plan_ids"}

\* the id lists a source populates
ListsOf(source) ==
    CASE source = "activities" -> {"activity_ids"}
      [] source = "workouts" -> {"workout_ids", "scheduled_workout_ids"}
      [] source = "devices" -> {"device_ids"}
      [] source = "profile" -> {"user_profile_numbers"}
      [] source = "last_used" -> {"user_profile_numbers", "device_ids"}
      [] source = "gear" -> {"gear_uuids"}
      [] source = "plans" -> {"plan_ids"}

\* a remote call of the source was issued and raised
SourceFailed(service, source) ==
    CASE source = "activities" -> fetch_activities_for_year(service.activities,
                                                    service.activities_rest).raised
      [] source = "workouts" -> fetch_all_workouts(service.workouts).raised
      [] source = "gear" ->
            build_seed_context(service).gear_called /\ service.gear.kind = "raise"
      [] OTHER -> service[source].kind = "raise"

\* the source's cached payload is the empty default and the id lists it
\* populates hold nothing of it
AtEmptyDefault(seeds, service, source) ==
    LET cached == seeds.cached_method_data
        devices == IF service.devices.kind = "raise" THEN <<>> ELSE service.devices.ids
        profile == ProfileOf(service)
        last_used == LastUsedOf(service)
    IN CASE source = "activities" ->
                cached.get_activities = <<>> /\ seeds.activity_ids = <<>>
         [] source = "workouts" ->
                /\ cached.get_workouts = <<>>
                /\ seeds.workout_ids = <<>>
                /\ seeds.scheduled_workout_ids = <<>>
         [] source = "devices" ->
                /\ cached.get_devices = <<>>
                /\ seeds.device_ids = Present(last_used.deviceId)
         [] source = "profile" ->
                /\ cached.get_user_profile = EmptyProfile
                /\ seeds.user_profile_numbers = Present(last_used.userProfileNumber)
         [] source = "last_used" ->
                /\ cached.get_device_last_used = EmptyLastUsed
                /\ seeds.user_profile_numbers =
                     SortedSeq(Range(Present(profile.userProfileNumber)
                                     \o Present(profile.profileId)))
                /\ seeds.device_ids = SortedSeq(Range(devices))
         [] source = "gear" -> cached.get_gear = <<>> /\ seeds.gear_uuids = <<>>
         [] source = "plans" -> cached.get_training_plans = <<>> /\ seeds.plan_ids = <<>>

\* the id lists the other sources populate are what they are whatever the
\* source answers
OthersUnaffected(seeds, service, source) ==
    \A answer \in AnswersOf(source) :
        LET other == [service EXCEPT ![source] = answer]
        IN \A key \in IdLists \ ListsOf(source) :
               build_seed_context(other)[key] = seeds[key]

\* C22: Bootstrap fault tolerance.  When a remote call of a bootstrap source
\* raised, build_seed_context still returned a context in which that source's
\* cached payload and the id lists derived from it are at their empty default
\* and the id lists the other sources populate are what they are whatever
\* that source answers.
C22_BootstrapFaultTolerance ==
    Bootstrapped =>
        \A source \in Sources :
            SourceFailed(fn_in.service, source)
                => /\ fn_out = build_seed_context(fn_in.service)
                   /\ AtEmptyDefault(fn_out, fn_in.service, source)
                   /\ OthersUnaffected(fn_out, fn_in.service, source)

(***************************************************************************)
(* Termination                                                             *)
(***************************************************************************)
\* collect_year_data has returned or has been left by an exception
RunEnded == phase = "idle" /\ run > 0

\* the paged loop stops at its ceiling: the cursor stays below it and no
\* method issues more calls than the ceiling has pages
WithinCeilings ==
    /\ \A w \in Workers : page_start[w] < PageCeiling
    /\ \A p \in Paths : Len(issued[p]) <= PageCeiling \div PageLimit

\* a run in progress can always take a step: no thread waits for ever
NeverStuck == phase = "running" => ENABLED NextTerm

\* C23: Termination.  Whatever the remote service answers, the endless
\* service included, a run of collect_year_data never gets stuck, its paged
\* loops stay within their ceilings, and when it has ended it has written
\* the manifest.
C23_Termination ==
    /\ NeverStuck
    /\ WithinCeilings
    /\ RunEnded => outcome = "manifest" /\ manifest.written

\* the one profile id the user profile is to give: userProfileNumber when the
\* response carries it, otherwise profileId
FirstProfileId(profile) ==
    IF profile.userProfileNumber # 0 THEN Present(profile.userProfileNumber)
    ELSE Present(profile.profileId)

\* C31: from the user-profile response build_seed_context takes one profile
\* id, userProfileNumber if present and otherwise profileId: the user profile
\* numbers of the context are that id and the one of the last-used device.
C31_OneProfileId ==
    (Bootstrapped /\ fn_in.service.profile.kind = "ok") =>
        fn_out.user_profile_numbers =
            SortedSeq(Range(FirstProfileId(fn_in.service.profile)
                            \o Present(LastUsedOf(fn_in.service).userProfileNumber)))

(***************************************************************************)
(* Activity pagination                                                     *)
(***************************************************************************)
Paginated == fn_in.applied /\ "script" \in DOMAIN fn_in

\* the answer of the service to the request of page k (start = k * limit)
PageAt(k) == IF k + 1 <= Len(fn_in.script) THEN fn_in.script[k + 1] ELSE fn_in.rest

\* page k has no activity of the year and one older than the year
OlderOnly(k) == PageAt(k).kind = "batch" /\ PageAt(k).hits = <<>> /\ PageAt(k).older

\* page k is the second of two consecutive empty pages
SecondEmpty(k) == k > 0 /\ PageAt(k).kind = "empty" /\ PageAt(k - 1).kind = "empty"

\* the pages at which the pagination is to stop
StopPages == { k \in 0..(ActivityPageCeiling - 1) : OlderOnly(k) \/ SecondEmpty(k) }

\* the number of pages requested up to the first stop, all the pages up to the
\* ceiling when there is none
PagesDue ==
    IF StopPages = {} THEN ActivityPageCeiling
    ELSE (CHOOSE k \in StopPages : \A j \in StopPages : k <= j) + 1

\* the activities of the year of pages lo..hi, in page order
RECURSIVE HitsOf(_, _)
HitsOf(lo, hi) ==
    IF lo > hi THEN <<>>
    ELSE IF lo = hi THEN PageAt(lo).hits
    ELSE LET mid == (lo + hi) \div 2
         IN HitsOf(lo, mid) \o HitsOf(mid + 1, hi)

\* C32: the activity pagination requests the pages 0, 1, 2, ... and stops at
\* the first page that has no activity of the year and an older one, or is the
\* second of two consecutive empty pages, or at the ceiling of 500 pages; the
\* activities of the year of every page requested are kept.
C32_ActivityPagination ==
    Paginated =>
        /\ fn_out.requests = PagesDue
        /\ fn_out.activities = HitsOf(0, PagesDue - 1)

(***************************************************************************)
(* The paged loop                                                          *)
(***************************************************************************)
PagedRun == fn_in.applied /\ "start_from" \in DOMAIN fn_in

\* the answer of the service to the k-th request of the run
AnswerAt(k) == IF k <= Len(fn_in.script) THEN fn_in.script[k] ELSE fn_in.rest

\* the start value of the k-th request
StartOf(k) == fn_in.start_from + (k - 1) * PageLimit

\* the k-th page fails: its request raises, or persisting its outcome does
PageFails(k) == AnswerAt(k).kind = "raise" \/ k \in fn_in.write_raises

\* the loop is to stop after the k-th page: it fails, is empty or is short
PageEnds(k) == PageFails(k) \/ AnswerAt(k).n = 0 \/ AnswerAt(k).n < PageLimit

\* the requests whose start value is below the ceiling
PagesBelowCeiling ==
    IF fn_in.start_from < PageCeiling
    THEN (PageCeiling - fn_in.start_from + PageLimit - 1) \div PageLimit ELSE 0

\* the number of requests up to the first page that ends the loop, all the
\* requests below the ceiling when there is none
RequestsDue ==
    LET ends == { k \in 1..PagesBelowCeiling : PageEnds(k) }
    IN IF ends = {} THEN PagesBelowCeiling
       ELSE CHOOSE k \in ends : \A j \in ends : k <= j

\* C33: the paged loop requests start = start_from, start_from + limit, ...
\* and stops after the first page that fails, is empty or holds fewer than
\* limit items, or when start reaches the ceiling; no page is requested after
\* a failed one and the run records at most one error.
C33_PagedLoop ==
    PagedRun =>
        /\ fn_out.calls = [k \in 1..RequestsDue |-> StartOf(k)]
        /\ Len(fn_out.errors) <= 1

\* a run of several pages that a failed request ends, and a run that the
\* ceiling ends
C33_Witness ==
    /\ PagedRun
    /\ \/ /\ Len(fn_out.calls) >= 2
          /\ AnswerAt(Len(fn_out.calls)).kind = "raise"
          /\ Len(fn_out.errors) = 1
       \/ /\ fn_in.start_from = 0
          /\ Len(fn_out.calls) = PageCeiling \div PageLimit
          /\ Len(fn_out.errors) = 0

\* C40: the outcome callback runs once per issued request: every request of
\* the paged loop adds one entry to request_args and one record to data or to
\* errors, also when the write of the callback raises after a successful call.
C40_PagedBookkeeping ==
    PagedRun =>
        /\ fn_out.callbacks = Len(fn_out.calls)
        /\ fn_out.request_args = fn_out.calls
        /\ Len(fn_out.data) + Len(fn_out.errors) = Len(fn_out.calls)

(***************************************************************************)
(* Terminal statuses                                                       *)
(***************************************************************************)
TerminalStatuses == {"success", "partial", "failed", "skipped"}

\* C34: the envelope run_method ends with has a terminal status, so every
\* manifest item and every entry of a written manifest is success, partial,
\* failed or skipped, and the pending count of the manifest is 0.
C34_TerminalStatus ==
    /\ \A i \in 1..Len(methods) : done[i] = "ok" => items[i].status \in TerminalStatuses
    /\ manifest.written =>
          /\ \A k \in 1..Len(manifest.methods) :
                manifest.methods[k].status \in TerminalStatuses
          /\ manifest.status_counts["pending"] = 0

\* a run that resumed a method whose envelope an interrupted run had left
\* pending on disk has written its manifest
C34_Witness ==
    /\ outcome = "manifest"
    /\ \E i \in 1..Len(methods) :
          /\ startFile[OutputFile(methods[i])].status = "pending"
          /\ done[i] = "ok"
          /\ issued[OutputFile(methods[i])] # <<>>

(***************************************************************************)
(* Resume                                                                  *)
(***************************************************************************)
\* every call of the plan of the method at index i has a success record in
\* the envelope e
PlanComplete(i, e) ==
    /\ PlanOf(i).calls # <<>>
    /\ \A k \in 1..Len(PlanOf(i).calls) :
          request_key(PlanOf(i).calls[k]) \in get_completed_request_keys(e)

\* C35: Resume convergence.  When a run without overwrite has ended and every
\* call of the plan of a method that is not paged has a success record in its
\* envelope, the status of the envelope and of the manifest item is success.
C35_ResumeConvergence ==
    \A i \in 1..Len(methods) :
        (outcome = "manifest" /\ ~overwrite /\ done[i] = "ok" /\ i \notin exc_seen
            /\ ~IsPaged(methods[i]) /\ PlanComplete(i, file[OutputFile(methods[i])]))
            => /\ file[OutputFile(methods[i])].status = "success"
               /\ items[i].status = "success"

\* C36: Monotonic progress.  During and after a run without overwrite, every
\* success record the envelope of a method held on disk when the run started
\* is still in the envelope on disk.
C36_MonotonicProgress ==
    \A sp \in FeedSpecs :
        (run > 0 /\ ~overwrite) =>
            \A k \in 1..Len(startFile[OutputFile(sp)].data) :
                \E j \in 1..Len(file[OutputFile(sp)].data) :
                    file[OutputFile(sp)].data[j] = startFile[OutputFile(sp)].data[k]

\* the thread w is inside a method that has calls of this run left to attempt
CallsLeft(w) ==
    /\ cur[w] # 0
    /\ pc[w] \in {"seq_call", "paged_call"} \/ pending[w] # <<>>

\* C37: No premature completion.  While a method has planned calls that the
\* current run has not attempted yet, its envelope on disk does not carry the
\* status success or skipped, so the next run without overwrite resumes it.
C37_NoPrematureCompletion ==
    \A w \in Workers :
        CallsLeft(w) =>
            /\ file[CurPath(w)].status \notin {"success", "skipped"}
            /\ ~AlreadyComplete(file[CurPath(w)])

\* in the middle of a method: the outcome of a call of this run is on disk
\* and a further call is about to be issued
C37_Witness ==
    \E w \in Workers :
        /\ pc[w] = "seq_call"
        /\ issued[CurPath(w)] # <<>>
        /\ file[CurPath(w)].data # <<>>
        /\ file[CurPath(w)].request_args = env[w].request_args

(***************************************************************************)
(* The section filter and the session factory                              *)
(***************************************************************************)
\* the methods of the feed a run with section filter sel leaves out because
\* of their section (collect_year_data, lines 788-790)
OutsideSections(sel) ==
    { i \in 1..Len(methods) : sel # {} /\ methods[i].section_slug \notin sel }

\* C38: Frame of the section filter.  No step of a run restricted by a section
\* filter, its start included, changes the persisted envelope of a method
\* outside the selected sections, with overwrite on as well as off.
C38_SectionFilterFrame ==
    [][\A i \in OutsideSections(selected_sections') :
            file'[OutputFile(methods[i])] = file[OutputFile(methods[i])]]_vars

\* the sessions client_factory() has returned
FactorySessions == { wclient[w] : w \in Workers } \ {"none"}

\* C39: Session use outside the pool.  In a run whose worker pool is not
\* activated (max_workers <= 1, or at most one method scheduled) no session
\* of the factory exists and every remote call was made on the client
\* passed to collect_year_data.
C39_SessionOutsidePool ==
    (run > 0 /\ ~PoolActive) =>
        /\ FactorySessions = {}
        /\ \A s \in Sessions \ {"client"} : used[s] = {}
====
